---- MODULE Spec2Model ----
(***************************************************************************)
(* Model of the watsonx MCP server repository: the embedding-index CLI     *)
(* (build / search / rag / stats), the configuration guards of the         *)
(* document-analyzer and batch-processor CLIs, and the MCP tool-call       *)
(* handler.                                                                *)
(*                                                                         *)
(* Abstractions of data:                                                   *)
(*  - a text is [src, len]: the first len characters of the content named  *)
(*    src (a file stem, or a query id); substring(0, n) keeps src and      *)
(*    caps len at n;                                                       *)
(*  - an embedding is a sequence of integers; a similarity is the triple   *)
(*    [dot, na, nb] the loop of cosineSimilarity accumulates, standing for *)
(*    the number dot / (sqrt(na) * sqrt(nb)), which is NaN when na*nb = 0. *)
(***************************************************************************)
EXTENDS Integers, Sequences, FiniteSets, TLC

\* ------------------------------------------------------------------ bounds
\* entries of the documents directory listing
NumFiles == 12
\* process launches explored (each launch stamps the next clock value)
MaxRuns == 2
\* requests the MCP server handles
MaxCalls == 2
\* failed remote requests in one run of the batch processor
MaxFailures == 1

\* ------------------------------------------------------- program constants
\* const batchSize = 10
batchSize == 10
\* content.substring(0, 500)
EmbedChars == 500
\* truncated.substring(0, 200)
PreviewChars == 200
\* content.substring(0, 1500)
ContextChars == 1500
\* buildIndex(maxDocs = 100), parseInt(arg) || 100
DefaultMaxDocs == 100
\* queryIndex(query, topK = 5)
DefaultTopK == 5
\* ragQuery(question, topK = 3)
RagTopK == 3
\* queryIndex(arg, 10) in the search command
SearchTopK == 10

\* ------------------------------------------------------------ basic helpers
Min(a, b) == IF a < b THEN a ELSE b
Max(a, b) == IF a > b THEN a ELSE b

\* Array.prototype.slice(begin, end) on a 1-based sequence, with the
\* negative-index and clamping rules of JavaScript.
Slice(s, begin, end) ==
  LET n  == Len(s)
      b0 == IF begin < 0 THEN Max(n + begin, 0) ELSE Min(begin, n)
      e0 == IF end < 0 THEN Max(n + end, 0) ELSE Min(end, n)
  IN  IF e0 <= b0 THEN << >> ELSE SubSeq(s, b0 + 1, e0)

\* String.prototype.substring(0, n) on a text [src, len].
Substring(t, n) == [t EXCEPT !.len = Min(t.len, Max(n, 0))]

Reverse(s) == [k \in 1..Len(s) |-> s[Len(s) + 1 - k]]

\* a generated text is the sequence of its words and white spaces
Space == [space |-> TRUE]

\* a word of a generated text: its letters a-z and A-Z in lower case,
\* whether it has capitals, and where it has other characters: "none",
\* "around" the letters only, or "inside" them
GeneratedWord(letters, capitals, others) ==
  [letters |-> letters, capitals |-> capitals, others |-> others]

\* text.trim()
Trim(s) ==
  LET RECURSIVE TrimStart(_)
      TrimStart(t) == IF t # << >> /\ Head(t) = Space THEN TrimStart(Tail(t)) ELSE t
  IN  Reverse(TrimStart(Reverse(TrimStart(s))))

\* ------------------------------------------------------ the file system
Files == 1..NumFiles

\* the directory listing, in the order readdir returns it
Listing == [f \in Files |-> [stem |-> f, ext |-> IF f = 5 THEN "md" ELSE "txt"]]

\* the content of a file: its length in characters
Content(f) ==
  [src |-> f,
   len |-> CASE f % 4 = 0 -> 2000
             [] f % 4 = 1 -> 150
             [] f % 4 = 2 -> 500
             [] OTHER     -> 501]

\* ------------------------------------------------ the remote embedding model
\* The vector the service computes for a text; it depends on the content
\* named, as the service is a function of its input.  Among the vectors are
\* the zero vector and two of one direction and different length.
VectorTable ==
  << << 10, 0 >>, << 0, 10 >>, << 9, 1 >>, << 0, 0 >>, << 1, 9 >>,
     << -10, 0 >>, << 2, 2 >>, << 3, 3 >> >>
ServiceEmbedding(t) == VectorTable[((t.src - 1) % Len(VectorTable)) + 1]

\* the query strings of the search and rag commands (ids above the files)
Queries == { [src |-> 105, len |-> 20], [src |-> 107, len |-> 700] }

\* ------------------------------------------------- double arithmetic
\* The numbers of the program are IEEE 754 doubles.  A finite double is
\* kept as sign, exponent and mantissa, its value being m * 2^e with
\* 2^52 <= m < 2^53 (or m = 0); the mantissa and the intermediate results
\* of an operation are natural numbers of any size, written as their limbs
\* to base LimbBase, least significant first, without leading zero limbs.
LimbBits == 15
LimbBase == 32768
MantissaBits == 53

RECURSIVE BigOf(_)
BigOf(n) == IF n = 0 THEN << >> ELSE << n % LimbBase >> \o BigOf(n \div LimbBase)

RECURSIVE Trimmed(_)
Trimmed(a) ==
  IF a = << >> \/ a[Len(a)] # 0 THEN a ELSE Trimmed(SubSeq(a, 1, Len(a) - 1))

\* a + b + carry
BigAdd(a, b, carry) ==
  LET Limb(x, k) == IF k <= Len(x) THEN x[k] ELSE 0
      RECURSIVE AddLimbs(_, _)
      AddLimbs(k, c) ==
        IF k > Len(a) /\ k > Len(b)
        THEN IF c = 0 THEN << >> ELSE << c >>
        ELSE LET t == Limb(a, k) + Limb(b, k) + c
             IN  << t % LimbBase >> \o AddLimbs(k + 1, t \div LimbBase)
  IN  AddLimbs(1, carry)

\* a - b for a >= b
BigSub(a, b) ==
  LET RECURSIVE SubLimbs(_, _)
      SubLimbs(k, borrow) ==
        IF k > Len(a) THEN << >>
        ELSE LET t == a[k] - (IF k <= Len(b) THEN b[k] ELSE 0) - borrow
             IN  << IF t < 0 THEN t + LimbBase ELSE t >>
                   \o SubLimbs(k + 1, IF t < 0 THEN 1 ELSE 0)
  IN  Trimmed(SubLimbs(1, 0))

\* -1, 0, 1 as a is less than, equal to or greater than b
BigCompare(a, b) ==
  LET RECURSIVE From(_)
      From(k) ==
        IF k = 0 THEN 0
        ELSE IF a[k] # b[k] THEN (IF a[k] < b[k] THEN -1 ELSE 1)
        ELSE From(k - 1)
  IN  IF Len(a) # Len(b) THEN (IF Len(a) < Len(b) THEN -1 ELSE 1)
      ELSE From(Len(a))

\* a * b
BigMul(a, b) ==
  LET \* a * c for a limb c, from limb k on
      RECURSIVE TimesLimbs(_, _, _)
      TimesLimbs(c, k, carry) ==
        IF k > Len(a) THEN IF carry = 0 THEN << >> ELSE << carry >>
        ELSE LET t == a[k] * c + carry
             IN  << t % LimbBase >> \o TimesLimbs(c, k + 1, t \div LimbBase)
      \* a * (the limbs of b from k on)
      RECURSIVE MulFrom(_)
      MulFrom(k) ==
        IF k > Len(b) THEN << >>
        ELSE LET rest == MulFrom(k + 1)
             IN  BigAdd(Trimmed(TimesLimbs(b[k], 1, 0)),
                        IF rest = << >> THEN << >> ELSE << 0 >> \o rest, 0)
  IN  Trimmed(MulFrom(1))

\* a * 2^n
ShiftLeft(a, n) ==
  LET RECURSIVE Pow2(_)
      Pow2(k) == IF k = 0 THEN 1 ELSE 2 * Pow2(k - 1)
  IN  IF a = << >> THEN << >>
      ELSE [k \in 1..(n \div LimbBits) |-> 0] \o BigMul(a, << Pow2(n % LimbBits) >>)

\* a \div 2^n
ShiftRight(a, n) ==
  LET high == SubSeq(a, (n \div LimbBits) + 1, Len(a))
      RECURSIVE Pow2(_)
      Pow2(k) == IF k = 0 THEN 1 ELSE 2 * Pow2(k - 1)
      c    == Pow2(n % LimbBits)
      \* the limbs 1..k of high \div c, rem the remainder of the limbs above
      RECURSIVE DivLimbs(_, _)
      DivLimbs(k, rem) ==
        IF k = 0 THEN << >>
        ELSE LET t == rem * LimbBase + high[k]
             IN  Append(DivLimbs(k - 1, t % c), t \div c)
  IN  IF n \div LimbBits >= Len(a) THEN << >>
      ELSE Trimmed(DivLimbs(Len(high), 0))

\* the number of binary digits of a
BitLength(a) ==
  LET RECURSIVE SmallBits(_)
      SmallBits(n) == IF n = 0 THEN 0 ELSE 1 + SmallBits(n \div 2)
  IN  IF a = << >> THEN 0 ELSE LimbBits * (Len(a) - 1) + SmallBits(a[Len(a)])

NaN == [nan |-> TRUE, neg |-> FALSE, e |-> 0, m |-> << >>]
Zero == [nan |-> FALSE, neg |-> FALSE, e |-> 0, m |-> << >>]

\* The double nearest to sign * (q + rest) * 2^e, where q has MantissaBits
\* digits and 0 <= rest < 1 is known by its comparison with 1/2 (cmp is
\* -1, 0 or 1): round to nearest, a tie to the even mantissa.
Rounded(neg, q, cmp, e) ==
  LET up == cmp > 0 \/ (cmp = 0 /\ q # << >> /\ q[1] % 2 = 1)
      m  == IF up THEN BigAdd(q, << 1 >>, 0) ELSE q
  IN  IF BitLength(m) > MantissaBits
      THEN [nan |-> FALSE, neg |-> neg, e |-> e + 1, m |-> ShiftRight(m, 1)]
      ELSE [nan |-> FALSE, neg |-> neg, e |-> e, m |-> m]

\* Math.sqrt(n) for an integer n >= 0: the double nearest to the root.  The
\* integer root of n comes first, then one binary digit after another.
Sqrt(n) ==
  LET \* the integer square root of n, lo^2 <= n < hi^2
      RECURSIVE RootBetween(_, _)
      RootBetween(lo, hi) ==
        IF hi - lo = 1 THEN lo
        ELSE LET mid == (lo + hi) \div 2
             IN  IF mid * mid <= n THEN RootBetween(mid, hi)
                 ELSE RootBetween(lo, mid)
      \* One more digit: root and rem = n * 4^k - root^2 become the root
      \* and the remainder of n * 4^(k+1).
      RootDigit(st) ==
        LET four  == ShiftLeft(st.rem, 2)
            trial == BigAdd(BigAdd(st.root, st.root, 0), BigAdd(st.root, st.root, 0), 1)
        IN  IF BigCompare(four, trial) < 0
            THEN [root |-> BigAdd(st.root, st.root, 0), rem |-> four]
            ELSE [root |-> BigAdd(st.root, st.root, 1), rem |-> BigSub(four, trial)]
      \* steps more digits: the first half of the steps, then the others
      \* from the state the first half has reached
      RECURSIVE RootDigits(_, _)
      RootDigits(st, steps) ==
        IF steps = 0 THEN st
        ELSE IF steps = 1 THEN RootDigit(st)
        ELSE CHOOSE out \in { RootDigits(half, steps - (steps \div 2)) :
                                half \in { RootDigits(st, steps \div 2) } } : TRUE
      \* 46341 is the least number whose square is no 32-bit integer
      first == RootBetween(0, 46341)
      steps == MantissaBits - BitLength(BigOf(first))
      r     == RootDigits([root |-> BigOf(first),
                           rem  |-> BigOf(n - first * first)], steps)
  IN  IF n = 0 THEN Zero
      ELSE \* the rest is beyond 1/2 exactly when rem > root
           Rounded(FALSE, r.root, IF BigCompare(r.root, r.rem) < 0 THEN 1 ELSE -1,
                   -steps)

\* ------------------------------------------------------- cosineSimilarity
\* the loop of cosineSimilarity: the sums are integers, exact as doubles
RECURSIVE CosineLoop(_, _, _, _)
CosineLoop(a, b, k, acc) ==
  IF k > Len(a) THEN acc
  ELSE CosineLoop(a, b, k + 1,
         [dot |-> acc.dot + a[k] * b[k],
          na  |-> acc.na + a[k] * a[k],
          nb  |-> acc.nb + b[k] * b[k]])

\* Math.sqrt of the norm of every vector of the model, computed once
RootTable ==
  [n \in { CosineLoop(VectorTable[k], VectorTable[k], 1,
                      [dot |-> 0, na |-> 0, nb |-> 0]).na :
             k \in 1..Len(VectorTable) } |-> Sqrt(n)]

\* dot / (Math.sqrt(normA) * Math.sqrt(normB)): each operation rounds
Quotient(sums) ==
  LET RootOf(n) == IF n \in DOMAIN RootTable THEN RootTable[n] ELSE Sqrt(n)
      \* x * y of two doubles, neither NaN
      Times(x, y) ==
        IF x.m = << >> \/ y.m = << >> THEN Zero
        ELSE LET p    == BigMul(x.m, y.m)
                 n    == BitLength(p) - MantissaBits
                 q    == ShiftRight(p, n)
                 rest == BigSub(p, ShiftLeft(q, n))
             IN  Rounded(x.neg # y.neg, q,
                         BigCompare(rest, ShiftLeft(<< 1 >>, n - 1)),
                         x.e + y.e + n)
      \* One more binary digit of a quotient a / b: quot and rem = a * 2^k -
      \* quot * b become the quotient and the remainder of a * 2^(k+1).
      QuotientDigit(st, b) ==
        LET twice == BigAdd(st.rem, st.rem, 0)
        IN  IF BigCompare(twice, b) < 0
            THEN [quot |-> BigAdd(st.quot, st.quot, 0), rem |-> twice]
            ELSE [quot |-> BigAdd(st.quot, st.quot, 1), rem |-> BigSub(twice, b)]
      \* steps more digits: the first half of the steps, then the others
      \* from the state the first half has reached
      RECURSIVE QuotientDigits(_, _, _)
      QuotientDigits(st, b, steps) ==
        IF steps = 0 THEN st
        ELSE IF steps = 1 THEN QuotientDigit(st, b)
        ELSE CHOOSE out \in { QuotientDigits(half, b, steps - (steps \div 2)) :
                                half \in { QuotientDigits(st, b, steps \div 2) } } : TRUE
      \* d / y for an integer d and a double y that is not NaN: 0/0 is NaN
      \* (a non-zero d over 0 does not occur: a dot product is 0 when a
      \* norm is).  |d| * 2^lead is the multiple of |d| by a power of two
      \* next below the mantissa of y: its quotient by the mantissa is 0.
      \* MantissaBits digits more, and one more when the quotient is still
      \* short, give a quotient of MantissaBits digits.
      Over(d, y) ==
        IF y.m = << >> THEN NaN
        ELSE IF d = 0 THEN Zero
        ELSE LET a     == BigOf(IF d < 0 THEN -d ELSE d)
                 lead  == MantissaBits - 1 - BitLength(a)
                 first == QuotientDigits([quot |-> << >>, rem |-> ShiftLeft(a, lead)],
                                         y.m, MantissaBits)
                 short == BitLength(first.quot) < MantissaBits
                 r     == IF short THEN QuotientDigit(first, y.m) ELSE first
             IN  Rounded((d < 0) # y.neg, r.quot,
                         BigCompare(BigAdd(r.rem, r.rem, 0), y.m),
                         -(lead + MantissaBits + (IF short THEN 1 ELSE 0)) - y.e)
  IN  Over(sums.dot, Times(RootOf(sums.na), RootOf(sums.nb)))

\* the quotients of the sums of every two vectors of the model, computed
\* once
QuotientTable ==
  [sums \in { CosineLoop(VectorTable[j], VectorTable[k], 1,
                         [dot |-> 0, na |-> 0, nb |-> 0]) :
                j, k \in 1..Len(VectorTable) } |-> Quotient(sums)]

\* mutant: normB accumulates a[i] * a[i]
cosineSimilarityNormA(a, b) ==
  LET sums  == CosineLoop(a, b, 1, [dot |-> 0, na |-> 0, nb |-> 0])
      wrong == [sums EXCEPT !.nb = sums.na]
  IN  IF wrong \in DOMAIN QuotientTable THEN QuotientTable[wrong]
      ELSE Quotient(wrong)

cosineSimilarity(a, b) ==
  LET sums == CosineLoop(a, b, 1, [dot |-> 0, na |-> 0, nb |-> 0])
  IN  IF sums \in DOMAIN QuotientTable THEN QuotientTable[sums]
      ELSE Quotient(sums)

\* dot / (sqrt(na) * sqrt(nb)) is 0/0 = NaN exactly when a norm is zero
IsNaN(s) == s.nan

\* s < t as JavaScript evaluates it on two doubles: false when either side
\* is NaN
SimLess(s, t) ==
  LET MagnitudeLess(x, y) ==
        IF y.m = << >> THEN FALSE
        ELSE IF x.m = << >> THEN TRUE
        ELSE IF x.e # y.e THEN x.e < y.e
        ELSE BigCompare(x.m, y.m) < 0
  IN  /\ ~IsNaN(s) /\ ~IsNaN(t)
      /\ IF s.neg /\ ~t.neg THEN TRUE
         ELSE IF ~s.neg /\ t.neg THEN FALSE
         ELSE IF s.neg THEN MagnitudeLess(t, s)
         ELSE MagnitudeLess(s, t)

\* the comparator (a, b) => b.similarity - a.similarity, as sort reads it:
\* negative, positive, or zero; a NaN difference counts as zero.
SortCompare(a, b) ==
  IF IsNaN(a.similarity) \/ IsNaN(b.similarity) THEN 0
  ELSE IF SimLess(b.similarity, a.similarity) THEN -1
  ELSE IF SimLess(a.similarity, b.similarity) THEN 1
  ELSE 0

\* ------------------------------------------------ Array.prototype.sort
\* The sort of the JavaScript engine on arrays shorter than 64 elements:
\* find the initial run (reversed when strictly descending), then binary
\* insertion of the remaining elements.  For a consistent comparator this
\* is the stable sort the language requires.
ArraySort(s) ==
  LET \* the length of the run that starts the array, from idx on
      RECURSIVE RunLength(_, _, _)
      RunLength(idx, desc, len) ==
        IF idx > Len(s) THEN len
        ELSE LET order == SortCompare(s[idx], s[idx - 1])
             IN  IF (desc /\ order >= 0) \/ (~desc /\ order < 0) THEN len
                 ELSE RunLength(idx + 1, desc, len + 1)
      \* where pivot goes among t[left..right-1]
      RECURSIVE BinarySearch(_, _, _, _)
      BinarySearch(t, pivot, left, right) ==
        IF left >= right THEN left
        ELSE LET mid == left + ((right - left) \div 2)
             IN  IF SortCompare(pivot, t[mid]) < 0
                 THEN BinarySearch(t, pivot, left, mid)
                 ELSE BinarySearch(t, pivot, mid + 1, right)
      RECURSIVE BinaryInsertionSort(_, _)
      BinaryInsertionSort(t, start) ==
        IF start > Len(t) THEN t
        ELSE LET pivot == t[start]
                 left  == BinarySearch(t, pivot, 1, start)
                 moved == [k \in 1..Len(t) |->
                             IF k < left \/ k > start THEN t[k]
                             ELSE IF k = left THEN pivot
                             ELSE t[k - 1]]
             IN  BinaryInsertionSort(moved, start + 1)
  IN  IF Len(s) < 2 THEN s
      ELSE LET desc == SortCompare(s[2], s[1]) < 0
               run  == RunLength(3, desc, 2)
               made == IF desc
                       THEN Reverse(SubSeq(s, 1, run)) \o SubSeq(s, run + 1, Len(s))
                       ELSE s
           IN  BinaryInsertionSort(made, run + 1)

\* ------------------------------------------------------------ JSON values
\* the value undefined where an array element is read past the end, and the
\* null JSON.stringify writes in its place (no embedding has one component)
Undefined == << "undefined" >>
Null == << "null" >>

\* the values of a JSON text
JNull == [j |-> "null"]
JNum(n) == [j |-> "number", n |-> n]
JStr(str) == [j |-> "string", str |-> str]
JArr(items) == [j |-> "array", items |-> items]
JObj(members) == [j |-> "object", members |-> members]

\* mutant: every embedding is written as null
StringifyEmbeddingNull(e) == JNull

\* JSON.stringify of an embedding: an array of finite numbers; an undefined
\* array entry is written as null
StringifyEmbedding(e) ==
  IF e = Undefined THEN JNull
  ELSE JArr([k \in 1..Len(e) |-> JNum(e[k])])

\* JSON.stringify of {filename, preview, length}
StringifyDocument(d) ==
  JObj([filename |-> JStr(d.filename), preview |-> JStr(d.preview),
        length |-> JNum(d.length)])

\* JSON.stringify(index, null, 2); of metadata the time stamps are strings,
\* count a number
JsonStringify(ix) ==
  JObj([documents  |-> JArr([k \in 1..Len(ix.documents) |->
                               StringifyDocument(ix.documents[k])]),
        embeddings |-> JArr([k \in 1..Len(ix.embeddings) |->
                               StringifyEmbedding(ix.embeddings[k])]),
        metadata   |-> JObj([k \in DOMAIN ix.metadata |->
                               IF k = "count" THEN JNum(ix.metadata[k])
                               ELSE JStr(ix.metadata[k])])])

\* JSON.parse(data)
RECURSIVE JsonParse(_)
JsonParse(text) ==
  CASE text.j = "null" -> Null
    [] text.j = "number" -> text.n
    [] text.j = "string" -> text.str
    [] text.j = "array" -> [k \in 1..Len(text.items) |-> JsonParse(text.items[k])]
    [] text.j = "object" ->
         [k \in DOMAIN text.members |-> JsonParse(text.members[k])]

\* ---------------------------------------------------------------- argv
NoArg == [kind |-> "none"]
\* a string parseInt reads as the integer n
Digits(n) == [kind |-> "digits", val |-> n]
Word == [kind |-> "word"]

\* parseInt(arg) || dflt : NaN and 0 are both falsy
ParseIntOr(arg, dflt) ==
  IF arg.kind = "digits" /\ arg.val # 0 THEN arg.val ELSE dflt

\* !arg : undefined (the empty string is not modelled)
Falsy(arg) == arg.kind = "none"

VARIABLES
  apiKey,        \* WATSONX_API_KEY: "unset", "valid", or "bad" (a value the
                 \* authenticator's constructor rejects)
  spaceId,       \* WATSONX_SPACE_ID: "unset" or "set"
  projectId,     \* WATSONX_PROJECT_ID: "unset" or "set"
  unreadable,    \* the files whose readFile fails
  indexFile,     \* content of INDEX_PATH: absent, corrupt, or a JSON text
  clock,         \* the time stamp new Date() gives; one tick per launch
  tool,          \* the script this process runs
  command,       \* process.argv[2], or "call:<function>" for a direct call
  arg,           \* process.argv[3]
  fileAtLaunch,  \* the index file as this process found it
  pc,            \* where the process stands (its pending await)
  exitCode,      \* the exit status, -1 while the process runs
  log,           \* the messages printed, as tags
  thrown,        \* the error that left the running function, or "none"
  client,        \* the module-level client handle: "null" or "handle"
  created,       \* how many client handles this process constructed
  requests,      \* the remote requests this process issued, in order
  pending,       \* the number of requests awaiting their response
  failures,      \* the number of requests of this process that failed
  index,         \* the index object of buildIndex / loadIndex
  maxDocs,       \* buildIndex: its argument
  txtFiles,      \* buildIndex: the selected files
  i,             \* buildIndex: the batch offset
  docs,          \* buildIndex: docs of the current batch
  readLog,       \* buildIndex: every readFile so far, <<file, succeeded>>
  query,         \* queryIndex: the query text
  topK,          \* queryIndex: topK
  results,       \* what queryIndex returned
  contexts,      \* ragQuery: the contexts collected
  writes,        \* writes of the index file by this process
  toolResult,    \* MCP server: what the handler that ended last returned or threw
  answered,      \* MCP server: the call that handler answered
  inflight,      \* MCP server: the calls whose handlers await a response
  calls,         \* MCP server: the number of requests received
  race           \* concurrent builds: the processes and the bytes on disk

envVars == << apiKey, spaceId, projectId, unreadable >>
runVars == << clock, tool, command, arg, fileAtLaunch >>
ctlVars == << pc, exitCode, log, thrown >>
netVars == << client, created, requests, pending, failures >>
buildVars == << maxDocs, txtFiles, i, docs, readLog >>
queryVars == << query, topK, results, contexts >>
\* no call has been answered
NoCall == [name |-> "none"]
mcpVars == << toolResult, answered, inflight, calls >>
vars == << envVars, runVars, ctlVars, netVars, buildVars, queryVars,
           indexFile, index, writes, mcpVars, race >>

\* ------------------------------------------------------------- the index
NoIndex == [documents |-> << >>, embeddings |-> << >>, metadata |-> [created |-> 0]]
Absent == [kind |-> "absent"]
Corrupt == [kind |-> "corrupt"]
JsonFile(text) == [kind |-> "json", text |-> text]

\* Files at INDEX_PATH that hold JSON no saveIndex wrote: an index without
\* metadata, an object without documents, null, and objects whose documents
\* are no array but have a length: {"length": 0}, {"length": 3} and a string
\* of three characters.  JSON.parse accepts each.
ForeignFiles ==
  { JsonFile(JObj([documents |-> JArr(<< >>), embeddings |-> JArr(<< >>)])),
    JsonFile(JObj([metadata |-> JObj(<< >>)])),
    JsonFile(JNull),
    JsonFile(JObj([documents |-> JObj([length |-> JNum(0)]),
                   metadata |-> JObj(<< >>)])),
    JsonFile(JObj([documents |-> JObj([length |-> JNum(3)]),
                   metadata |-> JObj(<< >>)])),
    JsonFile(JObj([documents |-> JStr([src |-> 0, len |-> 3]),
                   metadata |-> JObj(<< >>)])) }

\* mutant: no try/catch around readFile and JSON.parse
loadIndexUncaught(file, now) ==
  [threw |-> file.kind # "json",
   value |-> IF file.kind = "json" THEN JsonParse(file.text) ELSE NoIndex]

\* loadIndex: readFile and JSON.parse inside try, the empty index stamped
\* now in catch.  The result says whether an error left the function, and
\* the value returned otherwise.
loadIndex(file, now) ==
  [threw |-> FALSE,
   value |-> IF file.kind = "json" THEN JsonParse(file.text)
             ELSE [documents |-> << >>, embeddings |-> << >>,
                   metadata |-> [created |-> now, count |-> 0]]]

\* mutant: only metadata.updated is assigned
StampedUpdatedOnly(ix, now) ==
  [ix EXCEPT !.metadata =
     [k \in (DOMAIN ix.metadata) \cup {"updated"} |->
        IF k = "updated" THEN now ELSE ix.metadata[k]]]

\* saveIndex, the two assignments: index.metadata.updated / .count
Stamped(ix, now) ==
  [ix EXCEPT !.metadata =
     [k \in (DOMAIN ix.metadata) \cup {"updated", "count"} |->
        CASE k = "updated" -> now
          [] k = "count"   -> Len(ix.documents)
          [] OTHER         -> ix.metadata[k]]]

\* saveIndex, the write: the file holds the serialized stamped index
saveIndex(ix, now) == JsonFile(JsonStringify(Stamped(ix, now)))

\* The value loadIndex returns, as the JSON text it was parsed from: the
\* text of the file, or the text of the empty index of the catch.  The
\* functions that use the value read its properties from this text, where
\* the kind of each value (object, array, null) shows.
LoadedText(file, now) ==
  IF file.kind = "json" THEN file.text
  ELSE JsonStringify([documents |-> << >>, embeddings |-> << >>,
                      metadata |-> [created |-> now, count |-> 0]])

\* value.f for a value JSON.parse made: the member f of an object, the
\* length of an array or of a string (a text, kept with its number of
\* characters), undefined otherwise
Member(value, f) ==
  CASE value.j = "object" /\ f \in DOMAIN value.members -> value.members[f]
    [] value.j = "array" /\ f = "length" -> JNum(Len(value.items))
    [] value.j = "string" /\ f = "length" -> JNum(value.str.len)
    [] OTHER -> [j |-> "undefined"]

\* reading a property of value is a TypeError: value is null or undefined
MemberThrows(value) == value.j \in {"null", "undefined"}

\* index.documents.length is a TypeError
DocumentsThrows(text) ==
  MemberThrows(text) \/ MemberThrows(Member(text, "documents"))

\* index.documents.length: the property length of whatever value documents
\* is, as a JSON value or undefined
DocumentsLength(text) == Member(Member(text, "documents"), "length")

\* ------------------------------------------------------------- start-up
\* which files cannot be read: none, the first three, one of each batch, all
UnreadableChoices == { {}, {1, 2, 3}, {2, NumFiles}, Files }

InitProcess ==
  /\ clock = 0
  \* no concurrent builds
  /\ race = [proc |-> << >>, disk |-> << >>, last |-> 0]
  /\ command = "none"
  /\ arg = NoArg
  /\ exitCode = -1
  /\ log = {}
  /\ thrown = "none"
  /\ client = "null"
  /\ created = 0
  /\ requests = << >>
  /\ pending = 0
  /\ failures = 0
  /\ index = NoIndex
  /\ maxDocs = 0
  /\ txtFiles = << >>
  /\ i = 0
  /\ docs = << >>
  /\ readLog = << >>
  /\ query = [src |-> 0, len |-> 0]
  /\ topK = 0
  /\ results = << >>
  /\ contexts = << >>
  /\ writes = 0
  /\ fileAtLaunch = indexFile
  /\ toolResult = [kind |-> "none"]
  /\ answered = NoCall
  /\ inflight = << >>
  /\ calls = 0

Init ==
  /\ apiKey \in {"unset", "valid", "bad"}
  /\ spaceId \in {"unset", "set"}
  /\ projectId = "unset"
  /\ unreadable \in UnreadableChoices
  /\ indexFile \in {Absent, Corrupt} \cup ForeignFiles
  /\ tool = "none"
  /\ pc = "idle"
  /\ InitProcess

\* A new process running script t with argv[2] = cmd and argv[3] = a:
\* module-level state as the script's top level leaves it.  The launching
\* action adds the conjuncts for pc, exitCode, log, maxDocs, query, topK.
Fresh(t, cmd, a) ==
  /\ pc \in {"idle", "exited"}
  /\ clock < MaxRuns
  /\ clock' = clock + 1
  /\ tool' = t
  /\ command' = cmd
  /\ arg' = a
  /\ fileAtLaunch' = indexFile
  /\ thrown' = "none"
  /\ client' = "null"
  /\ created' = 0
  /\ requests' = << >>
  /\ pending' = 0
  /\ failures' = 0
  /\ index' = NoIndex
  /\ txtFiles' = << >>
  /\ i' = 0
  /\ docs' = << >>
  /\ readLog' = << >>
  /\ contexts' = << >>
  /\ results' = << >>
  /\ writes' = 0
  /\ toolResult' = [kind |-> "none"]
  /\ answered' = NoCall
  /\ inflight' = << >>
  /\ calls' = 0
  \* the documents are files outside the program: which of them can be read
  \* may have changed since the last process ended
  /\ unreadable' \in UnreadableChoices
  /\ UNCHANGED << apiKey, spaceId, projectId, indexFile, race >>

\* the process goes on at pc = next
Goto(next) ==
  /\ pc' = next
  /\ exitCode' = -1
  /\ log' = {}

\* process.exit(code), or the end of main when code = 0; exitCode is the
\* status the process ends with
Exit(code, tags) ==
  /\ pc' = "exited"
  /\ exitCode' = code
  /\ log' = tags

NoArgs ==
  /\ maxDocs' = 0
  /\ query' = [src |-> 0, len |-> 0]
  /\ topK' = 0

\* mutant: only the key is checked
ConfigMissingKeyOnly == apiKey = "unset"

\* if (!WATSONX_API_KEY || !WATSONX_SPACE_ID)
ConfigMissing == apiKey = "unset" \/ spaceId = "unset"

\* argv[3] of search and rag: absent, or a query
QueryArgs == {NoArg} \cup {[kind |-> "text", text |-> q] : q \in Queries}

\* main of the embedding index: the banner, the configuration guard and the
\* switch, up to the call of the command's function.
main(cmd, a) ==
  /\ Fresh("embedding-index", cmd, a)
  /\ IF ConfigMissing
     THEN Exit(1, {"config_error"}) /\ NoArgs
     ELSE CASE cmd = "build" ->
               /\ Goto("buildIndex")
               /\ maxDocs' = ParseIntOr(a, DefaultMaxDocs)
               /\ query' = [src |-> 0, len |-> 0]
               /\ topK' = 0
            [] cmd \in {"search", "rag"} ->
               IF Falsy(a)
               THEN Exit(1, {"usage"}) /\ NoArgs
               ELSE /\ Goto("queryIndex")
                    /\ maxDocs' = 0
                    /\ query' = a.text
                    /\ topK' = IF cmd = "search" THEN SearchTopK ELSE RagTopK
            [] cmd = "stats" -> Goto("showStats") /\ NoArgs
            [] OTHER -> Exit(0, {"usage"}) /\ NoArgs

\* The functions called on their own, with any arguments and without the
\* guard of main: buildIndex(n), queryIndex(q, k).
call_buildIndex(n) ==
  /\ Fresh("embedding-index", "call:buildIndex", NoArg)
  /\ Goto("buildIndex")
  /\ maxDocs' = n
  /\ query' = [src |-> 0, len |-> 0]
  /\ topK' = 0

call_queryIndex(q, k) ==
  /\ Fresh("embedding-index", "call:queryIndex", NoArg)
  /\ Goto("queryIndex")
  /\ maxDocs' = 0
  /\ query' = q
  /\ topK' = k

\* ------------------------------------------------------- remote requests
\* An error leaves the running function; nothing between it and main
\* catches it, and main().catch(console.error) prints it: the process ends
\* with status 0.
Throw(err) ==
  /\ thrown' = err
  /\ pc' = "exited"
  /\ exitCode' = 0

\* mutant: the getter does not test whether a handle exists
newInstanceAlways(handle, count) == count + 1

\* if (!client && WATSONX_API_KEY) client = WatsonXAI.newInstance(...), with
\* the key set: the number of handles created so far, after the getter ran
newInstance(handle, count) == IF handle = "null" THEN count + 1 ELSE count

\* getClient() followed by a call of a method of the handle it returns.
\* getClient constructs the handle when there is none and the key is set;
\* the constructor throws on a key it rejects; with no key the handle is
\* null and the method call is a TypeError.  Otherwise the request req is
\* sent and the process awaits its response at pc = next.
Request(req, next) ==
  IF client = "null" /\ apiKey = "bad"
  THEN Throw("client_creation") /\ UNCHANGED netVars
  ELSE IF client = "null" /\ apiKey = "unset"
  THEN Throw("TypeError") /\ UNCHANGED netVars
  ELSE /\ client' = "handle"
       /\ created' = newInstance(client, created)
       /\ requests' = Append(requests, req)
       /\ pending' = pending + 1
       /\ pc' = next
       /\ UNCHANGED << thrown, exitCode, failures >>

\* the response of the outstanding request arrives
Responded ==
  /\ pending' = pending - 1
  /\ UNCHANGED << client, created, requests, failures >>

\* mutant: the failed request is sent a second time
FailedRetried ==
  /\ pending' = pending
  /\ failures' = failures + 1
  /\ requests' = Append(requests, requests[Len(requests)])
  /\ UNCHANGED << client, created >>

\* the outstanding request fails: the await rejects with the error
Failed ==
  /\ pending' = pending - 1
  /\ failures' = failures + 1
  /\ UNCHANGED << client, created, requests >>

\* watsonx.embedText({modelId, spaceId, inputs: texts})
EmbedRequest(texts) == [kind |-> "embedText", spaceId |-> spaceId, inputs |-> texts]

\* the response of a successful embedText: one result per input, in order
EmbedResponse(req) ==
  [result |-> [results |-> [k \in 1..Len(req.inputs) |->
                              [embedding |-> ServiceEmbedding(req.inputs[k])]]]]

\* mutant: the vectors come back in reverse order
generateEmbeddingsReversed(response) ==
  [k \in 1..Len(response.result.results) |->
     response.result.results[Len(response.result.results) + 1 - k].embedding]

\* response.result.results?.map((r) => r.embedding) || []
generateEmbeddings(response) ==
  IF "results" \in DOMAIN response.result
  THEN [k \in 1..Len(response.result.results) |->
          response.result.results[k].embedding]
  ELSE << >>

\* arr[j] with j counted from 1: undefined past the end
ArrayAt(arr, j) == IF j <= Len(arr) THEN arr[j] ELSE Undefined

LastRequest == requests[Len(requests)]

\* ------------------------------------------------------------ buildIndex
\* the object a document contributes to index.documents
DocEntry(name, content) ==
  [filename |-> name,
   preview  |-> [src |-> content.src,
                 len |-> Substring(Substring(content, EmbedChars), PreviewChars).len,
                 oneLine |-> TRUE],
   length   |-> content.len]

\* files.filter(f => f.endsWith(".txt")).slice(0, maxDocs)
SelectFiles(listing, n) ==
  Slice(SelectSeq(listing, LAMBDA f : f.ext = "txt"), 0, n)

\* mutant: the build starts from the persisted index instead of a new one
buildIndex_startFromPrior ==
  /\ pc = "buildIndex"
  /\ txtFiles' = SelectFiles(Listing, maxDocs)
  /\ index' = IF indexFile \in ForeignFiles THEN NoIndex
               ELSE loadIndex(indexFile, clock).value
  /\ pc' = "build_batch"
  /\ UNCHANGED << thrown, exitCode >>
  /\ UNCHANGED << envVars, runVars, log, netVars, maxDocs, i, docs, readLog,
                  queryVars, indexFile, writes, mcpVars, race >>

\* readdir, the .txt filter and slice(0, maxDocs); the new empty index.
\* readdir fails when the documents directory is missing.
buildIndex_start ==
  /\ pc = "buildIndex"
  /\ \E dirOk \in BOOLEAN :
       IF dirOk
       THEN /\ txtFiles' = SelectFiles(Listing, maxDocs)
            /\ index' = [documents |-> << >>, embeddings |-> << >>,
                         metadata |-> [created |-> clock]]
            /\ pc' = "build_batch"
            /\ UNCHANGED << thrown, exitCode >>
       ELSE /\ Throw("ENOENT")
            /\ UNCHANGED << txtFiles, index >>
  /\ UNCHANGED << envVars, runVars, log, netVars, maxDocs, i, docs, readLog,
                  queryVars, indexFile, writes, mcpVars, race >>

\* mutant: the slice ends one file too far
BatchAtOneMore(files, offset) == Slice(files, offset, offset + batchSize + 1)

\* txtFiles.slice(i, i + batchSize)
BatchAt(files, offset) == Slice(files, offset, offset + batchSize)

Readable(name) == name.stem \notin unreadable

\* the inner loop over one batch: texts and docs of the files that could be
\* read, in order
BatchTexts(batch) ==
  LET ok == SelectSeq(batch, Readable)
  IN  [k \in 1..Len(ok) |-> Substring(Content(ok[k].stem), EmbedChars)]

\* mutant: docs.push outside the try, a doc for every file of the batch
BatchDocsUnguarded(batch) ==
  [k \in 1..Len(batch) |-> DocEntry(batch[k], Content(batch[k].stem))]

BatchDocs(batch) ==
  LET ok == SelectSeq(batch, Readable)
  IN  [k \in 1..Len(ok) |-> DocEntry(ok[k], Content(ok[k].stem))]

\* One turn of the outer loop up to its await: read the batch, and when a
\* text was read ask for the embeddings; with no text go to the next batch.
buildIndex_readBatch ==
  /\ pc = "build_batch"
  /\ i < Len(txtFiles)
  /\ LET batch == BatchAt(txtFiles, i)
     IN  /\ readLog' = readLog \o [k \in 1..Len(batch) |-> << batch[k], Readable(batch[k]) >>]
         /\ docs' = BatchDocs(batch)
         /\ IF Len(BatchTexts(batch)) > 0
            THEN Request(EmbedRequest(BatchTexts(batch)), "build_await") /\ i' = i
            ELSE /\ i' = i + batchSize
                 /\ UNCHANGED << pc, thrown, exitCode, netVars >>
  /\ UNCHANGED << envVars, runVars, log, maxDocs, txtFiles, queryVars, indexFile,
                  index, writes, mcpVars, race >>

\* mutant: index.embeddings = embeddings instead of a push per document
PushAllAssigns(ix, ds, embeddings) ==
  [ix EXCEPT !.documents = ix.documents \o ds, !.embeddings = embeddings]

\* for (j < docs.length) { documents.push(docs[j]); embeddings.push(embeddings[j]) }
PushAll(ix, ds, embeddings) ==
  [ix EXCEPT !.documents = ix.documents \o ds,
             !.embeddings = ix.embeddings \o
                              [j \in 1..Len(ds) |-> ArrayAt(embeddings, j)]]

\* the embeddings of the batch arrive
buildIndex_embedded ==
  /\ pc = "build_await"
  /\ Responded
  /\ index' = PushAll(index, docs, generateEmbeddings(EmbedResponse(LastRequest)))
  /\ i' = i + batchSize
  /\ pc' = "build_batch"
  /\ UNCHANGED << envVars, runVars, exitCode, log, thrown, maxDocs, txtFiles, docs,
                  readLog, queryVars, indexFile, writes, mcpVars, race >>

\* mutant: the failure is caught inside the loop and the loop goes on
buildIndex_embedFailedCaught ==
  /\ pc = "build_await"
  /\ Failed
  /\ i' = i + batchSize
  /\ pc' = "build_batch"
  /\ UNCHANGED << envVars, runVars, exitCode, log, thrown, maxDocs, txtFiles, docs,
                  readLog, queryVars, indexFile, index, writes, mcpVars, race >>

\* the embedding request fails: the rejection leaves generateEmbeddings and
\* buildIndex
buildIndex_embedFailed ==
  /\ pc = "build_await"
  /\ Failed
  /\ Throw("embedText")
  /\ UNCHANGED << envVars, runVars, log, buildVars, queryVars, indexFile, index,
                  writes, mcpVars, race >>

\* after the last batch: saveIndex(index), the closing messages, return
buildIndex_save ==
  /\ pc = "build_batch"
  /\ i >= Len(txtFiles)
  /\ index' = Stamped(index, clock)
  /\ indexFile' = saveIndex(index, clock)
  /\ writes' = writes + 1
  /\ Exit(0, {"index_built"})
  /\ UNCHANGED << envVars, runVars, thrown, netVars, buildVars, queryVars, mcpVars, race >>

\* ------------------------------------------------------------ queryIndex
\* index.embeddings.map((emb, i) => ({...index.documents[i], similarity}))
Scored(ix, queryEmbedding) ==
  [k \in 1..Len(ix.embeddings) |->
     [filename   |-> ix.documents[k].filename,
      preview    |-> ix.documents[k].preview,
      length     |-> ix.documents[k].length,
      similarity |-> cosineSimilarity(queryEmbedding, ix.embeddings[k])]]

\* The map of queryIndex throws a TypeError: cosineSimilarity is called for
\* an embedding, and a.length is read of an undefined query embedding, or
\* b[i] of a null embedding (the loop runs when a is not empty).
CosineThrows(ix, queryEmbedding) ==
  /\ Len(ix.embeddings) > 0
  /\ \/ queryEmbedding = Undefined
     \/ /\ Len(queryEmbedding) > 0
        /\ \E k \in 1..Len(ix.embeddings) : ix.embeddings[k] \in {Null, Undefined}

\* queryIndex returns res to the function awaiting it.  The search command
\* prints the results and main ends; ragQuery goes on; a direct call ends.
Return(res, tags) ==
  /\ results' = res
  /\ IF command = "rag"
     THEN /\ pc' = "ragQuery"
          /\ log' = log \cup tags
          /\ UNCHANGED exitCode
     ELSE Exit(0, log \cup tags)

\* if (index.documents.length === 0)

\* mutant: the empty index made for a missing file is saved
queryIndex_startSaving ==
  /\ pc = "queryIndex"
  /\ LET loaded == loadIndex(indexFile, clock)
     IN  /\ index' = loaded.value
         /\ IF DocumentsThrows(LoadedText(indexFile, clock))
            THEN /\ Throw("TypeError")
                 /\ UNCHANGED << results, log, netVars >>
            ELSE IF DocumentsLength(LoadedText(indexFile, clock)) = JNum(0)
            THEN /\ Return(<< >>, {"index_empty"})
                 /\ UNCHANGED << thrown, netVars >>
            ELSE /\ Request(EmbedRequest(<< query >>), "query_await")
                 /\ UNCHANGED << results, log >>
         /\ IF indexFile.kind = "json"
            THEN UNCHANGED << indexFile, writes >>
            ELSE /\ indexFile' = saveIndex(loaded.value, clock)
                 /\ writes' = writes + 1
  /\ UNCHANGED << envVars, runVars, buildVars, query, topK, contexts,
                  mcpVars, race >>

\* loadIndex; the empty-index return; otherwise the request for the
\* embedding of the query
queryIndex_start ==
  /\ pc = "queryIndex"
  /\ LET loaded == loadIndex(indexFile, clock)
     IN  IF loaded.threw
         THEN /\ Throw("loadIndex")
              /\ UNCHANGED << index, results, log, netVars >>
         ELSE /\ index' = loaded.value
              /\ IF DocumentsThrows(LoadedText(indexFile, clock))
                 THEN /\ Throw("TypeError")
                      /\ UNCHANGED << results, log, netVars >>
                 ELSE IF DocumentsLength(LoadedText(indexFile, clock)) = JNum(0)
                 THEN /\ Return(<< >>, {"index_empty"})
                      /\ UNCHANGED << thrown, netVars >>
                 ELSE /\ Request(EmbedRequest(<< query >>), "query_await")
                      /\ UNCHANGED << results, log >>
  /\ UNCHANGED << envVars, runVars, buildVars, query, topK, contexts, indexFile,
                  writes, mcpVars, race >>

\* the embedding of the query arrives: score, sort, slice (the index is the
\* one loaded from the file at the start of this call: the return for an
\* empty index has ended the call of every index the catch made)
queryIndex_embedded ==
  /\ pc = "query_await"
  /\ Responded
  /\ LET queryEmbedding == ArrayAt(generateEmbeddings(EmbedResponse(LastRequest)), 1)
     IN  IF \* index.embeddings.map is a TypeError: embeddings is no array
            \/ Member(indexFile.text, "embeddings").j # "array"
            \/ CosineThrows(index, queryEmbedding)
         THEN Throw("TypeError") /\ UNCHANGED << results, log >>
         ELSE \* results.sort((a, b) => b.similarity - a.similarity);
              \* return results.slice(0, topK)
              /\ Return(Slice(ArraySort(Scored(index, queryEmbedding)), 0, topK),
                        {"searched"})
              /\ UNCHANGED thrown
  /\ UNCHANGED << envVars, runVars, buildVars, query, topK, contexts, indexFile,
                  index, writes, mcpVars, race >>

queryIndex_embedFailed ==
  /\ pc = "query_await"
  /\ Failed
  /\ Throw("embedText")
  /\ UNCHANGED << envVars, runVars, log, buildVars, queryVars, indexFile, index,
                  writes, mcpVars, race >>

\* -------------------------------------------------------------- ragQuery
\* the contexts of the results whose source can still be read, in order
Contexts(res) ==
  LET ok == SelectSeq(res, LAMBDA r : Readable(r.filename))
  IN  [k \in 1..Len(ok) |->
         [filename   |-> ok[k].filename,
          content    |-> Substring(Content(ok[k].filename.stem), ContextChars),
          similarity |-> ok[k].similarity]]

\* watsonx.generateText({modelId, spaceId, input, parameters})
GenerateRequest(ctx, question) ==
  [kind |-> "generateText", spaceId |-> spaceId,
   context |-> [k \in 1..Len(ctx) |-> [filename |-> ctx[k].filename,
                                       content |-> ctx[k].content]],
   question |-> question]

\* mutant: the early return is missing
RagNeverReturnsEarly(res) == FALSE

\* mutant: the early return is also taken when no source could be read
RagNoContexts(res) == Len(Contexts(res)) = 0

\* if (results.length === 0) return
RagNothingFound(res) == Len(res) = 0

\* ragQuery once queryIndex has returned: the early return on no result;
\* otherwise re-read the sources, build the prompt, request the answer
ragQuery_assemble ==
  /\ pc = "ragQuery"
  /\ IF RagNothingFound(results)
     THEN /\ Exit(0, log \cup {"no_documents"})
          /\ UNCHANGED << contexts, thrown, netVars >>
     ELSE /\ contexts' = Contexts(results)
          /\ Request(GenerateRequest(Contexts(results), query), "rag_await")
          /\ UNCHANGED log
  /\ UNCHANGED << envVars, runVars, buildVars, query, topK, results, indexFile,
                  index, writes, mcpVars, race >>

\* the answer arrives: print it and the sources
ragQuery_generated ==
  /\ pc = "rag_await"
  /\ Responded
  /\ Exit(0, log \cup {"answer", "sources"})
  /\ UNCHANGED << envVars, runVars, thrown, buildVars, queryVars, indexFile, index,
                  writes, mcpVars, race >>

ragQuery_generateFailed ==
  /\ pc = "rag_await"
  /\ Failed
  /\ Throw("generateText")
  /\ UNCHANGED << envVars, runVars, log, buildVars, queryVars, indexFile, index,
                  writes, mcpVars, race >>

\* ------------------------------------------------------------- showStats
\* showStats throws a TypeError after its header line: documents.length of
\* an index that is null or has no documents; metadata.created of an index
\* without metadata; and, when documents.length > 0, documents.slice(0, 5)
\* .forEach of documents that are no array (an object has no function slice,
\* the slice of a string no forEach), or d.filename of a null among the
\* first five documents
StatsThrows(text) ==
  LET documents == Member(text, "documents")
      \* v > 0, v converted to a number: null is 0, undefined and an object
      \* are NaN, an array is its only entry or 0 or NaN, and no string of
      \* the model is a numeral
      RECURSIVE Positive(_)
      Positive(v) ==
        CASE v.j = "number" -> v.n > 0
          [] v.j = "array" -> Len(v.items) = 1 /\ Positive(v.items[1])
          [] OTHER -> FALSE
  IN  \/ DocumentsThrows(text)
      \/ MemberThrows(Member(text, "metadata"))
      \/ /\ Positive(DocumentsLength(text))
         /\ \/ documents.j # "array"
            \/ \E k \in 1..Min(5, Len(documents.items)) :
                 MemberThrows(documents.items[k])

showStats ==
  /\ pc = "showStats"
  /\ LET loaded == loadIndex(indexFile, clock)
     IN  IF loaded.threw
         THEN Throw("loadIndex") /\ UNCHANGED << index, log >>
         ELSE /\ index' = loaded.value
              /\ IF StatsThrows(LoadedText(indexFile, clock))
                 THEN Throw("TypeError") /\ log' = {"stats"}
                 ELSE Exit(0, {"stats"}) /\ UNCHANGED thrown
  /\ UNCHANGED << envVars, runVars, netVars, buildVars, queryVars, indexFile,
                  writes, mcpVars, race >>

\* ==================================================== document-analyzer
\* argv[3] naming file f, with argv[4] given or not
FileArg(f, q) == [kind |-> "file", file |-> f, question |-> q]

\* the stem of "1002519.txt", the file summarize and analyze default to; the
\* documents directory of the model has no such file
DefaultDocument == 0


\* main of the document analyzer: the banner, the configuration guard and
\* the switch, up to the first await of the command.
analyzer_main(cmd, a) ==
  /\ Fresh("document-analyzer", cmd, a)
  /\ IF ConfigMissing
     THEN Exit(1, {"config_error"}) /\ NoArgs
     ELSE CASE cmd = "catalog" -> Goto("loadDocumentCatalog") /\ NoArgs
            [] cmd \in {"summarize", "analyze"} -> Goto("readDocument") /\ NoArgs
            [] cmd = "question" ->
               IF Falsy(a) \/ ~a.question
               THEN Exit(1, {"usage"}) /\ NoArgs
               ELSE Goto("readDocument") /\ NoArgs
            [] cmd = "embed" ->
               /\ Goto("readSampleDocuments")
               /\ maxDocs' = 5
               /\ query' = [src |-> 0, len |-> 0]
               /\ topK' = 0
            [] cmd = "search" ->
               IF Falsy(a)
               THEN Exit(1, {"usage"}) /\ NoArgs
               ELSE /\ Goto("readSampleDocuments")
                    /\ maxDocs' = 20
                    /\ query' = a.text
                    /\ topK' = 5
            [] OTHER -> Exit(0, {"usage"}) /\ NoArgs

\* loadDocumentCatalog: readFile and JSON.parse, not caught
analyzer_catalog ==
  /\ pc = "loadDocumentCatalog"
  /\ \E ok \in BOOLEAN :
       IF ok THEN Exit(0, {"catalog"}) /\ UNCHANGED thrown
       ELSE Throw("catalog") /\ UNCHANGED log
  /\ UNCHANGED << envVars, runVars, netVars, buildVars, queryVars, indexFile,
                  index, writes, mcpVars, race >>

\* watsonx.generateText({modelId, spaceId, input, parameters})
DocumentRequest(f, cmd) ==
  [kind |-> "generateText", spaceId |-> spaceId,
   \* the characters of the document summarize / analyze / question send
   input |-> Substring(Content(f), CASE cmd = "summarize" -> 4000
                                     [] cmd = "analyze" -> 3000
                                     [] OTHER -> 3500)]

\* summarize, analyze, question: readFile, then the request, inside a try
\* whose catch prints the error
analyzer_readDocument ==
  /\ pc = "readDocument"
  /\ LET \* arg || "1002519.txt"
         f == IF Falsy(arg) THEN DefaultDocument ELSE arg.file
     IN  IF f \notin Files \/ f \in unreadable \/ apiKey = "bad"
         THEN Exit(0, {"error"}) /\ UNCHANGED netVars
         ELSE /\ client' = "handle"
              /\ created' = newInstance(client, created)
              /\ requests' = Append(requests, DocumentRequest(f, command))
              /\ pending' = pending + 1
              /\ pc' = "analyzer_generate"
              /\ UNCHANGED << exitCode, log, failures >>
  /\ UNCHANGED << envVars, runVars, thrown, buildVars, queryVars, indexFile,
                  index, writes, mcpVars, race >>

analyzer_generated ==
  /\ pc = "analyzer_generate"
  /\ Responded
  /\ Exit(0, {"answered"})
  /\ UNCHANGED << envVars, runVars, thrown, buildVars, queryVars, indexFile,
                  index, writes, mcpVars, race >>

\* the request fails: the catch of the command prints the error
analyzer_generateFailed ==
  /\ pc = "analyzer_generate"
  /\ Failed
  /\ Exit(0, {"error"})
  /\ UNCHANGED << envVars, runVars, thrown, buildVars, queryVars, indexFile,
                  index, writes, mcpVars, race >>

\* readSampleDocuments(count): the readable ones of the first count .txt
\* files, each cut to 5000 characters
readSampleDocuments(count) ==
  LET ok == SelectSeq(SelectFiles(Listing, count), Readable)
  IN  [k \in 1..Len(ok) |->
         [filename |-> ok[k], content |-> Substring(Content(ok[k].stem), 5000)]]

\* embed and search: the sample, then generateEmbeddings of its texts
analyzer_readSample ==
  /\ pc = "readSampleDocuments"
  /\ \E dirOk \in BOOLEAN :
       IF dirOk
       THEN LET sample == readSampleDocuments(maxDocs)
                texts == [k \in 1..Len(sample) |->
                            Substring(sample[k].content, EmbedChars)]
            IN  /\ docs' = sample
                /\ Request(EmbedRequest(texts), "analyzer_embed")
       ELSE /\ Throw("ENOENT")
            /\ UNCHANGED << docs, netVars >>
  /\ UNCHANGED << envVars, runVars, log, maxDocs, txtFiles, i, readLog,
                  queryVars, indexFile, index, writes, mcpVars, race >>

\* the embeddings of the sample arrive: embed prints them, search goes on
\* to semanticSearch
analyzer_embedded ==
  /\ pc = "analyzer_embed"
  /\ Responded
  /\ IF command = "embed"
     THEN Exit(0, {"embedded"})
     ELSE pc' = "semanticSearch" /\ UNCHANGED << exitCode, log >>
  /\ UNCHANGED << envVars, runVars, thrown, buildVars, queryVars, indexFile,
                  index, writes, mcpVars, race >>

\* semanticSearch: generateEmbeddings([query])
analyzer_semanticSearch ==
  /\ pc = "semanticSearch"
  /\ Request(EmbedRequest(<< query >>), "analyzer_query")
  /\ UNCHANGED << envVars, runVars, log, buildVars, queryVars, indexFile,
                  index, writes, mcpVars, race >>

\* documentEmbeddings.map((embedding, index) => ({index, similarity, document}))
Similarities(documentEmbeddings, documents, queryEmbedding) ==
  [k \in 1..Len(documentEmbeddings) |->
     [index |-> k - 1,
      similarity |-> cosineSimilarity(queryEmbedding, documentEmbeddings[k]),
      document |-> ArrayAt(documents, k)]]

\* the embedding of the query arrives: score, sort, slice(0, topK)
analyzer_searched ==
  /\ pc = "analyzer_query"
  /\ Responded
  /\ LET documentEmbeddings == generateEmbeddings(EmbedResponse(requests[1]))
         queryEmbedding == generateEmbeddings(EmbedResponse(LastRequest))[1]
     IN  results' = Slice(ArraySort(Similarities(documentEmbeddings, docs,
                                                 queryEmbedding)), 0, topK)
  /\ Exit(0, {"searched"})
  /\ UNCHANGED << envVars, runVars, thrown, buildVars, query, topK, contexts,
                  indexFile, index, writes, mcpVars, race >>

\* a request for embeddings fails: nothing catches the error
analyzer_embedFailed ==
  /\ pc \in {"analyzer_embed", "analyzer_query"}
  /\ Failed
  /\ Throw("embedText")
  /\ UNCHANGED << envVars, runVars, log, buildVars, queryVars, indexFile,
                  index, writes, mcpVars, race >>

\* ====================================================== batch-processor
\* parseInt(arg) || 10
DefaultBatchCount == 10


\* the options processBatch gets from each command
BatchOptions(cmd) ==
  CASE cmd = "classify" -> << "classify" >>
    [] cmd = "topics" -> << "topics" >>
    [] cmd = "summarize" -> << "summarize" >>
    [] OTHER -> << "classify", "topics", "summarize" >>

\* main of the batch processor: the banner, the configuration guard, mkdir
\* of the output directory and the switch, up to getDocuments.
batch_main(cmd, a) ==
  /\ Fresh("batch-processor", cmd, a)
  /\ IF ConfigMissing
     THEN Exit(1, {"config_error"}) /\ NoArgs
     ELSE IF cmd \in {"classify", "topics", "summarize", "full"}
     THEN /\ Goto("getDocuments")
          /\ maxDocs' = ParseIntOr(a, DefaultBatchCount)
          /\ query' = [src |-> 0, len |-> 0]
          /\ topK' = 0
     ELSE Exit(0, {"usage"}) /\ NoArgs

\* getDocuments(dir, ".txt", limit): readdir, filter, slice(0, limit)
batch_getDocuments ==
  /\ pc = "getDocuments"
  /\ \E dirOk \in BOOLEAN :
       IF dirOk
       THEN /\ txtFiles' = SelectFiles(Listing, maxDocs)
            /\ pc' = "processBatch"
            /\ UNCHANGED << thrown, exitCode >>
       ELSE /\ Throw("ENOENT")
            /\ UNCHANGED txtFiles
  /\ UNCHANGED << envVars, runVars, log, netVars, maxDocs, i, docs, readLog,
                  queryVars, indexFile, index, writes, mcpVars, race >>

\* what the model answers to the classification prompt of file f
ClassifyReplies ==
  << << Space, GeneratedWord("technical", TRUE, "none"), Space >>,
     << GeneratedWord("legal", FALSE, "around"), Space,
        GeneratedWord("advice", FALSE, "none") >>,
     << GeneratedWord("poetry", FALSE, "none") >>,
     << Space >>,
     << >>,
     << GeneratedWord("marketing", FALSE, "none") >>,
     << GeneratedWord("code", FALSE, "inside") >>,
     << GeneratedWord("other", FALSE, "none"), Space,
        GeneratedWord("business", FALSE, "none") >> >>
ClassifyReply(f) == ClassifyReplies[(f % Len(ClassifyReplies)) + 1]

validCategories ==
  {"technical", "business", "creative", "personal", "code", "legal",
   "marketing", "educational", "other"}

\* mutant: the category is returned without the test against validCategories
classifyDocumentUnchecked(reply) ==
  IF Trim(reply) = << >> THEN "other" ELSE Trim(reply)[1].letters

\* classifyDocument, from the generated text on:
\*   raw = generated_text?.trim().toLowerCase() || "other"
\*   category = raw.split(/\s+/)[0].replace(/[^a-z]/g, '')
\*   validCategories.includes(category) ? category : 'other'
classifyDocument(reply) ==
  LET raw == Trim(reply)
      category == IF raw = << >> THEN "other" ELSE raw[1].letters
  IN  IF category \in validCategories THEN category ELSE "other"

\* the parameters of the request of one operation on file f
BatchRequest(op, f) ==
  [kind |-> "generateText", spaceId |-> spaceId, op |-> op,
   input |-> Substring(Content(f), 2000)]

\* the value an operation stores in the result
\* the result object of file name after its first n operations
BatchResult(name, ops) ==
  [filename |-> name,
   size |-> Content(name.stem).len,
   values |-> [k \in 1..Len(ops) |->
                 [key   |-> ops[k],
                  value |-> IF ops[k] = "classify"
                            THEN classifyDocument(ClassifyReply(name.stem))
                            ELSE [generated |-> ops[k], of |-> name.stem]]]]

\* mutant: no try/catch in the loop, a failure leaves processBatch
batch_processFileUncaught ==
  /\ pc = "processBatch"
  /\ i < Len(txtFiles)
  /\ LET file == txtFiles[i + 1]
         ops == BatchOptions(command)
     IN  IF ~Readable(file) \/ apiKey = "bad"
         THEN /\ Throw("err.message")
              /\ UNCHANGED << docs, i, netVars >>
         ELSE /\ requests' = Append(requests, BatchRequest(ops[1], file.stem))
              /\ client' = "handle"
              /\ created' = newInstance(client, created)
              /\ pending' = pending + 1
              /\ pc' = "batch_await"
              /\ UNCHANGED << docs, i, failures, thrown, exitCode >>
  /\ UNCHANGED << envVars, runVars, log, maxDocs, txtFiles, readLog,
                  queryVars, indexFile, index, writes, mcpVars, race >>

\* One round of the loop of processBatch, up to its first await of a remote
\* call: readFile and the first operation the options select, inside the
\* try.  An unreadable file, or a constructor that throws, puts
\* {filename, error} into results and the loop goes on; otherwise the first
\* request is sent and the round waits for its response.
batch_processFile ==
  /\ pc = "processBatch"
  /\ i < Len(txtFiles)
  /\ LET file == txtFiles[i + 1]
         ops == BatchOptions(command)
     IN  IF ~Readable(file) \/ apiKey = "bad"
         THEN /\ docs' = Append(docs, [filename |-> file, error |-> "err.message"])
              /\ i' = i + 1
              /\ UNCHANGED << netVars, pc >>
         ELSE /\ requests' = Append(requests, BatchRequest(ops[1], file.stem))
              /\ client' = "handle"
              /\ created' = newInstance(client, created)
              /\ pending' = pending + 1
              /\ pc' = "batch_await"
              /\ UNCHANGED << docs, i, failures >>
  /\ UNCHANGED << envVars, runVars, exitCode, log, thrown, maxDocs, txtFiles,
                  readLog, queryVars, indexFile, index, writes, mcpVars, race >>

\* The response of the outstanding request arrives.  After the last
\* operation the result object is pushed and the round is over; otherwise
\* the request of the next operation is sent and awaited.
batch_responded ==
  /\ pc = "batch_await"
  /\ LET file == txtFiles[i + 1]
         ops == BatchOptions(command)
         \* the place in the options of the operation awaited
         k == CHOOSE n \in 1..Len(ops) : ops[n] = LastRequest.op
     IN  IF k = Len(ops)
         THEN /\ docs' = Append(docs, BatchResult(file, ops))
              /\ i' = i + 1
              /\ pending' = pending - 1
              /\ pc' = "processBatch"
              /\ UNCHANGED requests
         ELSE /\ requests' = Append(requests, BatchRequest(ops[k + 1], file.stem))
              /\ UNCHANGED << docs, i, pending, pc >>
  /\ UNCHANGED << client, created, failures >>
  /\ UNCHANGED << envVars, runVars, exitCode, log, thrown, maxDocs, txtFiles,
                  readLog, queryVars, indexFile, index, writes, mcpVars, race >>

\* The outstanding request fails: the await rejects inside the try, the
\* catch puts {filename, error} into results and the loop goes on.
batch_requestFailed ==
  /\ pc = "batch_await"
  /\ failures < MaxFailures
  /\ Failed
  /\ docs' = Append(docs, [filename |-> txtFiles[i + 1], error |-> "err.message"])
  /\ i' = i + 1
  /\ pc' = "processBatch"
  /\ UNCHANGED << envVars, runVars, exitCode, log, thrown, maxDocs, txtFiles,
                  readLog, queryVars, indexFile, index, writes, mcpVars, race >>

\* the loop is over: the report is built and written to the output file
batch_report ==
  /\ pc = "processBatch"
  /\ i >= Len(txtFiles)
  /\ Exit(0, {"report_saved"})
  /\ UNCHANGED << envVars, runVars, thrown, netVars, buildVars, queryVars,
                  indexFile, index, writes, mcpVars, race >>

\* ------------------------------------------------------------------ Next
Next ==
  \* argv[3] of build: absent, "0", "3", "4", "-1", or a word
  \/ \E a \in {NoArg, Digits(0), Digits(3), Digits(4), Digits(-1), Word} :
       main("build", a)
  \/ \E cmd \in {"search", "rag"}, a \in QueryArgs : main(cmd, a)
  \/ \E cmd \in {"stats", "help"} : main(cmd, NoArg)
  \/ \E n \in {0, 2} : call_buildIndex(n)
  \/ \E q \in Queries, k \in 0..4 : call_queryIndex(q, k)
  \/ \E cmd \in {"summarize", "analyze", "question"}, a \in {NoArg, FileArg(1, FALSE), FileArg(1, TRUE), FileArg(2, TRUE)} :
       analyzer_main(cmd, a)
  \/ \E a \in QueryArgs : analyzer_main("search", a)
  \/ \E cmd \in {"catalog", "embed", "help"} : analyzer_main(cmd, NoArg)
  \/ \E cmd \in {"classify", "topics", "summarize", "full", "help"},
        a \in {NoArg, Digits(0), Digits(2), Word} : batch_main(cmd, a)
  \/ buildIndex_start
  \/ buildIndex_readBatch
  \/ buildIndex_embedded
  \/ buildIndex_embedFailed
  \/ buildIndex_save
  \/ queryIndex_start
  \/ queryIndex_embedded
  \/ queryIndex_embedFailed
  \/ ragQuery_assemble
  \/ ragQuery_generated
  \/ ragQuery_generateFailed
  \/ showStats
  \/ analyzer_catalog
  \/ analyzer_readDocument
  \/ analyzer_generated
  \/ analyzer_generateFailed
  \/ analyzer_readSample
  \/ analyzer_embedded
  \/ analyzer_semanticSearch
  \/ analyzer_searched
  \/ analyzer_embedFailed
  \/ batch_getDocuments
  \/ batch_processFile
  \/ batch_responded
  \/ batch_requestFailed
  \/ batch_report

Spec == Init /\ [][Next]_vars

\* ======================================================== the MCP server
\* JavaScript values of the tool arguments
Undef == [t |-> "undef"]
Num(tenths) == [t |-> "num", tenths |-> tenths]
Str(s) == [t |-> "str", s |-> s]
Arr(elems) == [t |-> "arr", elems |-> elems]
Obj(fields) == [t |-> "obj", fields |-> fields]
\* x || dflt: dflt when x is falsy (undefined, null, 0 or "")
Or(x, dflt) ==
  IF \/ x.t \in {"undef", "null"}
     \/ x.t = "num" /\ x.tenths = 0
     \/ x.t = "str" /\ x.s = ""
  THEN dflt ELSE x

\* o.f: a TypeError when o is undefined or null, undefined when o has no f
PropertyThrows(o) == o.t \in {"undef", "null"}
Property(o, f) == IF o.t = "obj" /\ f \in DOMAIN o.fields THEN o.fields[f] ELSE Undef

\* the text the model generates
GeneratedText == << Space, GeneratedWord("answer", FALSE, "none"), Space >>

\* mutant: both identifiers are always added
ScopeBoth == [spaceId |-> spaceId, projectId |-> projectId]

\* The identifiers added to params: params.spaceId = WATSONX_SPACE_ID, else
\* params.projectId = WATSONX_PROJECT_ID, else neither.
Scope ==
  IF spaceId # "unset" THEN [spaceId |-> spaceId]
  ELSE IF projectId # "unset" THEN [projectId |-> projectId]
  ELSE [k \in {} |-> "unset"]

\* args.messages.map(...) throws: messages is no array, or a message is
\* undefined or null
FormatThrows(messages) ==
  \/ messages.t # "arr"
  \/ \E k \in 1..Len(messages.elems) : PropertyThrows(messages.elems[k])

\* args.messages.map(...): the formatted line of each chat message
FormattedPrompt(messages) ==
  [k \in 1..Len(messages.elems) |->
     LET role    == Property(messages.elems[k], "role")
         content == Property(messages.elems[k], "content")
     IN  IF role = Str("system") THEN << "System: ", content >>
         ELSE IF role = Str("user") THEN << "User: ", content >>
         ELSE IF role = Str("assistant") THEN << "Assistant: ", content >>
         ELSE << "", content >>]

\* a content array with one text item
TextResult(text) ==
  [kind |-> "returned", content |-> << [type |-> "text", text |-> text] >>]

\* what a client may send: the tool names, and for each the arguments
ToolNames ==
  {"watsonx_generate", "watsonx_list_models", "watsonx_embeddings",
   "watsonx_chat", "key_protect_list_keys", "key_protect_create_key",
   "key_protect_get_key", "key_protect_wrap_key", "key_protect_unwrap_key",
   "key_protect_delete_key", "zos_connect_list_services",
   "zos_connect_call_service", "zos_connect_get_service_info",
   "no_such_tool"}

Messages ==
  Arr(<< Obj([role |-> Str("system"), content |-> Str("s")]),
         Obj([role |-> Str("user"), content |-> Str("u")]),
         Obj([role |-> Str("assistant"), content |-> Str("a")]),
         Obj([role |-> Str("tool"), content |-> Str("t")]) >>)

PromptOnly == Obj([prompt |-> Str("p")])

ToolArgs(name) ==
  CASE name = "watsonx_generate" ->
         { Undef, PromptOnly,
           Obj([prompt |-> Str("p"), model_id |-> Str("m"),
                max_new_tokens |-> Num(1000), temperature |-> Num(2),
                top_p |-> Num(5), top_k |-> Num(100)]),
           Obj([prompt |-> Str("p"), model_id |-> Str(""),
                max_new_tokens |-> Num(0), temperature |-> Num(0),
                top_p |-> Num(0), top_k |-> Num(0)]) }
    [] name = "watsonx_embeddings" ->
         { Undef, PromptOnly, Obj([texts |-> Arr(<< Str("a"), Str("b") >>)]) }
    [] name = "watsonx_chat" ->
         { Undef, PromptOnly, Obj([messages |-> Messages]),
           Obj([messages |-> Messages, max_new_tokens |-> Num(1000),
                temperature |-> Num(2)]),
           Obj([messages |-> Messages, max_new_tokens |-> Num(0),
                temperature |-> Num(0)]),
           Obj([messages |-> Arr(<< [t |-> "null"] >>)]),
           Obj([messages |-> Str("hello")]) }
    [] OTHER -> { Undef, PromptOnly }

\* The switch inside the try of the handler, up to its await: the request
\* the call sends, or what the handler returns without sending one (the
\* catch of an error in building the parameters, the default branch).
Dispatch(name, args) ==
  LET \* the parameters of client.generateText for watsonx_generate
      GenerateParams ==
        [kind |-> "generateText",
         input |-> Property(args, "prompt"),
         modelId |-> Or(Property(args, "model_id"), Str("ibm/granite-13b-chat-v2")),
         parameters |->
           [max_new_tokens |-> Or(Property(args, "max_new_tokens"), Num(5000)),
            temperature |-> Or(Property(args, "temperature"), Num(7)),
            top_p |-> Or(Property(args, "top_p"), Num(10)),
            top_k |-> Or(Property(args, "top_k"), Num(500))],
         scope |-> Scope]

      \* the parameters of client.embedText for watsonx_embeddings
      EmbeddingsParams ==
        [kind |-> "embedText",
         inputs |-> Property(args, "texts"),
         modelId |-> Or(Property(args, "model_id"), Str("ibm/slate-125m-english-rtrvr")),
         scope |-> Scope]

      \* the parameters of client.generateText for watsonx_chat
      ChatParams ==
        [kind |-> "generateText",
         input |-> [lines |-> FormattedPrompt(Property(args, "messages")),
                    tail |-> "Assistant:"],
         modelId |-> Or(Property(args, "model_id"), Str("ibm/granite-13b-chat-v2")),
         parameters |->
           [max_new_tokens |-> Or(Property(args, "max_new_tokens"), Num(5000)),
            temperature |-> Or(Property(args, "temperature"), Num(7)),
            stop_sequences |-> << "User:", "System:" >>],
         scope |-> Scope]
      \* catch (error): the error message as text
      caught == [sends |-> FALSE,
                 result |-> TextResult(<< "Error calling watsonx.ai: ",
                                          "error.message" >>)]
      sent(req) == [sends |-> TRUE, request |-> req]
  IN  CASE name = "watsonx_generate" ->
             IF PropertyThrows(args) THEN caught
             ELSE sent(GenerateParams)
        [] name = "watsonx_list_models" ->
             sent([kind |-> "listFoundationModelSpecs", limit |-> Num(1000)])
        [] name = "watsonx_embeddings" ->
             IF PropertyThrows(args) THEN caught
             ELSE sent(EmbeddingsParams)
        [] name = "watsonx_chat" ->
             IF PropertyThrows(args) \/ FormatThrows(Property(args, "messages"))
             THEN caught
             ELSE sent(ChatParams)
        [] OTHER ->
             [sends |-> FALSE, result |-> TextResult(<< "Unknown tool: ", name >>)]

\* what the handler of tool name returns after the response of its request
Answer(name) ==
  CASE name = "watsonx_generate" -> TextResult(GeneratedText)
    [] name = "watsonx_list_models" -> TextResult(<< "JSON.stringify(models)" >>)
    [] name = "watsonx_embeddings" -> TextResult(<< "JSON.stringify(response.result)" >>)
    [] name = "watsonx_chat" -> TextResult(Trim(GeneratedText))

\* a tool call: its name and its arguments
Call(name, args) == [name |-> name, args |-> args]

\* the handler of call returns result
HandlerReturns(call, result) ==
  /\ answered' = call
  /\ toolResult' = result

\* mutant: the handler does not test the client it got
CallToolUnchecked(name, args) ==
  /\ tool = "mcp-server"
  /\ pc = "serving"
  /\ calls < MaxCalls
  /\ calls' = calls + 1
  /\ command' = name
  /\ arg' = args
  /\ LET out == Dispatch(name, args)
     IN  IF out.sends
         THEN /\ requests' = Append(requests, out.request)
              /\ pending' = pending + 1
              /\ inflight' = Append(inflight, Call(name, args))
              /\ UNCHANGED << toolResult, answered >>
         ELSE /\ HandlerReturns(Call(name, args), out.result)
              /\ UNCHANGED << requests, pending, inflight >>
  /\ UNCHANGED << client, created, failures >>
  /\ UNCHANGED << envVars, clock, tool, fileAtLaunch, ctlVars, buildVars,
                  queryVars, indexFile, index, writes, race >>

\* The handler of a tools/call request, from the request to its await of
\* the remote call, or to its return when it sends no request.
\* getWatsonxClient() runs before the try: an error of the constructor
\* leaves the handler.  The handler that awaits leaves the event loop to
\* the requests that come next.
CallTool(name, args) ==
  /\ tool = "mcp-server"
  /\ pc = "serving"
  /\ calls < MaxCalls
  /\ calls' = calls + 1
  /\ command' = name
  /\ arg' = args
  /\ IF client = "null" /\ apiKey = "bad"
     THEN /\ HandlerReturns(Call(name, args), [kind |-> "thrown", error |-> "client_creation"])
          /\ UNCHANGED << netVars, inflight >>
     ELSE IF client = "null" /\ apiKey = "unset"
     THEN /\ HandlerReturns(Call(name, args),
                     TextResult(<< "Error: watsonx.ai not configured." >>))
          /\ UNCHANGED << netVars, inflight >>
     ELSE LET out == Dispatch(name, args)
          IN  /\ client' = "handle"
              /\ created' = newInstance(client, created)
              /\ UNCHANGED failures
              /\ IF out.sends
                 THEN /\ requests' = Append(requests, out.request)
                      /\ pending' = pending + 1
                      /\ inflight' = Append(inflight, Call(name, args))
                      /\ UNCHANGED << toolResult, answered >>
                 ELSE /\ HandlerReturns(Call(name, args), out.result)
                      /\ UNCHANGED << requests, pending, inflight >>
  /\ UNCHANGED << envVars, clock, tool, fileAtLaunch, ctlVars, buildVars,
                  queryVars, indexFile, index, writes, race >>

\* inflight without its k-th call

\* the response of the k-th outstanding request arrives, in whatever order
\* the service answers: the handler that awaited it returns its text
CallTool_responded(k) ==
  /\ tool = "mcp-server"
  /\ k \in 1..Len(inflight)
  /\ HandlerReturns(inflight[k], Answer(inflight[k].name))
  /\ inflight' = SubSeq(inflight, 1, k - 1) \o SubSeq(inflight, k + 1, Len(inflight))
  /\ Responded
  /\ UNCHANGED << envVars, runVars, ctlVars, buildVars, queryVars, indexFile,
                  index, writes, calls, race >>

\* the k-th outstanding request fails: the catch of the handler that
\* awaited it returns the error message
CallTool_failed(k) ==
  /\ tool = "mcp-server"
  /\ k \in 1..Len(inflight)
  /\ HandlerReturns(inflight[k],
                    TextResult(<< "Error calling watsonx.ai: ", "error.message" >>))
  /\ inflight' = SubSeq(inflight, 1, k - 1) \o SubSeq(inflight, k + 1, Len(inflight))
  /\ Failed
  /\ UNCHANGED << envVars, runVars, ctlVars, buildVars, queryVars, indexFile,
                  index, writes, calls, race >>

\* the tools the server lists
ListedTools ==
  << "watsonx_generate", "watsonx_list_models", "watsonx_embeddings",
     "watsonx_chat", "key_protect_list_keys", "key_protect_create_key",
     "key_protect_get_key", "key_protect_wrap_key", "key_protect_unwrap_key",
     "key_protect_delete_key", "zos_connect_list_services",
     "zos_connect_call_service", "zos_connect_get_service_info" >>

\* the handler of a tools/list request
ListTools ==
  /\ tool = "mcp-server"
  /\ pc = "serving"
  /\ calls < MaxCalls
  /\ calls' = calls + 1
  /\ command' = "tools/list"
  /\ arg' = Undef
  /\ HandlerReturns(Call("tools/list", Undef), [kind |-> "tools", tools |-> ListedTools])
  /\ UNCHANGED inflight
  /\ UNCHANGED << envVars, clock, tool, fileAtLaunch, ctlVars, netVars,
                  buildVars, queryVars, indexFile, index, writes, race >>

\* the server after main() connected the transport
InitMcp ==
  /\ apiKey \in {"unset", "valid", "bad"}
  /\ spaceId \in {"unset", "set"}
  /\ projectId \in {"unset", "set"}
  /\ unreadable = {}
  /\ indexFile = Absent
  /\ tool = "mcp-server"
  /\ pc = "serving"
  /\ InitProcess

NextMcp ==
  \/ \E name \in ToolNames : \E args \in ToolArgs(name) : CallTool(name, args)
  \/ \E k \in 1..MaxCalls : CallTool_responded(k)
  \/ \E k \in 1..MaxCalls : CallTool_failed(k)
  \/ ListTools

SpecMcp == InitMcp /\ [][NextMcp]_vars

\* ===================================================== concurrent builds
\* Two processes run buildIndex at the same time on the same directory and
\* the same index file.  Each has its own module-level state; they share
\* the disk.  race.proc[p] is process p, race.last the process whose
\* saveIndex returned last.
\* race.disk is the index file as the segments of bytes it holds, in order
\* from byte 0: [owner, from, to] are the bytes from..to-1 of the text of
\* process owner, written at the same offsets of the file; owner 0 is a
\* hole of zero bytes.
\*
\* The embedding service of the concurrent builds answers vectors as long
\* as those of an embedding model: 16000 numbers, here of nine digits, other
\* numbers for every text.  The text of an index of two documents is then
\* longer than one write of writeFile takes.
LongEmbedding(t) == [k \in 1..16000 |-> 100000000 + 16000 * t.src + k]

\* The bytes of the text JSON.stringify(index, null, 2) makes of an index,
\* part by part: an indent of two spaces a level, a member or an entry a
\* line, ",\n" between two of them, "[]" for an array without entries.  A
\* file name is its stem in decimal and ".txt"; a preview has a byte a
\* character (letters, digits and spaces); a time stamp of toISOString has
\* 24 characters.  documents[k] and embeddings[k] are the bytes of entry k
\* from its indent to its closing bracket, metadata those of the member
\* metadata from its indent to its closing brace, bytes those of the text:
\* "{", the members documents, embeddings and metadata with ",\n" between
\* them, "}", an array member being its name and "[]", or its name, "[",
\* its entries with ",\n" between them and "  ]".
Layout(text) ==
  LET DecimalLength(n) ==
        LET m == IF n < 0 THEN 0 - n ELSE n
        IN  (IF n < 0 THEN 1 ELSE 0) +
            (IF m < 100000
             THEN (IF m < 100 THEN (IF m < 10 THEN 1 ELSE 2)
                   ELSE IF m < 1000 THEN 3 ELSE IF m < 10000 THEN 4 ELSE 5)
             ELSE (IF m < 10000000 THEN (IF m < 1000000 THEN 6 ELSE 7)
                   ELSE IF m < 100000000 THEN 8
                   ELSE IF m < 1000000000 THEN 9 ELSE 10))
      RECURSIVE Sum(_, _)
      Sum(sizes, k) == IF k = 0 THEN 0 ELSE sizes[k] + Sum(sizes, k - 1)
      \* the characters of the numbers of an array: those of the first
      \* times the numbers when all have as many, else, for each length in
      \* characters, the numbers of that length
      Characters(items) ==
        LET RECURSIVE Of(_)
            Of(l) ==
              IF l = 0 THEN 0
              ELSE l * Cardinality({k \in 1..Len(items) :
                                      DecimalLength(items[k].n) = l})
                   + Of(l - 1)
        IN  IF \A k \in 1..Len(items) :
                 DecimalLength(items[k].n) = DecimalLength(items[1].n)
            THEN Len(items) * DecimalLength(items[1].n)
            ELSE Of(11)
      \* "    {", the lines of filename, preview and length, "    }"
      Document(d) ==
        5 + 1 + (6 + 10 + 2 + 2 + DecimalLength(d.members.filename.str.stem) + 4)
          + 2 + (6 + 9 + 2 + 2 + d.members.preview.str.len)
          + 2 + (6 + 8 + 2 + DecimalLength(d.members.length.n))
          + 1 + 5
      \* "    null", "    []", or "    [", a line a number, "    ]"
      Embedding(e) ==
        IF e.j = "null" THEN 4 + 4
        ELSE IF e.items = << >> THEN 4 + 2
        ELSE 5 + 1 + 6 * Len(e.items) + Characters(e.items)
               + 2 * (Len(e.items) - 1) + 1 + 5
      RECURSIVE Sizes(_, _, _)
      Sizes(Size(_), items, k) ==
        IF k = 0 THEN << >>
        ELSE Append(Sizes(Size, items, k - 1), Size(items[k]))
      Array(sizes) ==
        IF sizes = << >> THEN 2
        ELSE 1 + 1 + Sum(sizes, Len(sizes)) + 2 * (Len(sizes) - 1) + 1 + 3
      members == DOMAIN text.members.metadata.members
      stamps == Cardinality(members \ {"count"})
      documents == Sizes(Document, text.members.documents.items,
                         Len(text.members.documents.items))
      embeddings == Sizes(Embedding, text.members.embeddings.items,
                          Len(text.members.embeddings.items))
      \* '  "metadata": {', a line a member ('    "created": "..."',
      \* '    "count": n') with ",\n" between them, "  }"
      metadata ==
        IF members = {} THEN 14 + 2
        ELSE 15 + 1 + stamps * (4 + 9 + 2 + 26)
             + (IF "count" \in members
                THEN 4 + 7 + 2 + DecimalLength(text.members.metadata.members.count.n)
                ELSE 0)
             + 2 * (Cardinality(members) - 1) + 1 + 3
  IN  [documents |-> documents, embeddings |-> embeddings, metadata |-> metadata,
       bytes |-> 1 + 1 + (2 + 11 + 2 + Array(documents))
                   + 2 + (2 + 12 + 2 + Array(embeddings))
                   + 2 + metadata
                   + 1 + 1]

\* the byte length of JSON.stringify(index, null, 2)
TextBytes(text) == Layout(text).bytes

\* fs.writeFile hands the runtime's write at most this many bytes at a time
kWriteFileMaxChunkSize == 524288

\* What readFile and JSON.parse can make of the bytes of the disk, procs[p]
\* holding the index process p serialized and the layout of its text.  The
\* bytes are those of the text of p when they end where it ends and each
\* segment is of p, or of a text that has the same bytes there (two texts
\* agree up to their first difference).  Bytes that begin with the head of
\* one text, cut among its embeddings, and end with the tail of another, cut
\* among its embeddings, may parse or not, with the characters at the cut:
\* parsed, they are the documents of the first, its embeddings before the
\* cut, the vector the cut makes, the embeddings of the second after the
\* cut, and the metadata of the second.  Nothing else parses: no bytes, a
\* hole, a text cut short or followed by more bytes.
ReadBacks(disk, procs) ==
  LET RECURSIVE SameDocuments(_, _, _)
      \* the number of leading documents two indexes share
      SameDocuments(a, b, k) ==
        IF /\ k < Len(a.documents) /\ k < Len(b.documents)
           /\ a.documents[k + 1] = b.documents[k + 1]
        THEN SameDocuments(a, b, k + 1) ELSE k
      RECURSIVE Start(_, _, _)
      \* the offset of entry k of a member whose first entry is at offset
      \* first, the entries taking sizes and ",\n" between them
      Start(sizes, first, k) ==
        IF k = 1 THEN first ELSE Start(sizes, first, k - 1) + sizes[k - 1] + 2
      \* The bytes from 0 on which the texts of processes o and p agree at
      \* least: all of equal texts; up to the first time stamp of texts with
      \* the same documents and embeddings; up to the end of the last
      \* document they share, or to the bracket that opens documents.
      CommonPrefix(o, p) ==
        CASE procs[o].index = procs[p].index -> procs[p].layout.bytes
          [] /\ procs[o].index.documents = procs[p].index.documents
             /\ procs[o].index.embeddings = procs[p].index.embeddings ->
               procs[p].layout.bytes - 2 - procs[p].layout.metadata
                 + 16 + 4 + 9 + 2 + 1
          [] OTHER ->
               LET k == SameDocuments(procs[o].index, procs[p].index, 0)
               IN  IF k = 0 THEN 2 + 15 + 1
                   ELSE Start(procs[p].layout.documents, 2 + 15 + 2, k)
                        + procs[p].layout.documents[k]
      Is(p) ==
        /\ procs[p].layout.bytes > 0
        /\ disk[Len(disk)].to = procs[p].layout.bytes
        /\ \A k \in 1..Len(disk) :
             \/ disk[k].owner = p
             \/ /\ disk[k].owner # 0
                /\ disk[k].to <= CommonPrefix(disk[k].owner, p)
      \* the offset of embedding k of the text of p: the first is on the
      \* line after the bracket that opens embeddings
      Vector(p, k) ==
        Start(procs[p].layout.embeddings,
              IF procs[p].layout.documents = << >>
              THEN 2 + 15 + 2 + 2 + 16 + 2
              ELSE Start(procs[p].layout.documents, 2 + 15 + 2,
                         Len(procs[p].layout.documents))
                   + procs[p].layout.documents[Len(procs[p].layout.documents)]
                   + 1 + 3 + 2 + 16 + 2,
              k)
      RECURSIVE At(_, _, _)
      \* the embedding of the text of p that holds byte c, 0 when none does
      At(p, c, k) ==
        IF k = 0 \/ Vector(p, k) <= c THEN k ELSE At(p, c, k - 1)
      Entries(p) == Len(procs[p].layout.embeddings)
      Cut(p, c) ==
        /\ At(p, c, Entries(p)) > 0
        /\ c < Vector(p, Entries(p)) + procs[p].layout.embeddings[Entries(p)]
        /\ \A k \in 1..Entries(p) : procs[p].index.embeddings[k] # Undefined
      cut  == disk[1].to
      Spliced ==
        LET head == JsonStringify(procs[disk[1].owner].index)
            tail == JsonStringify(procs[disk[2].owner].index)
            h == At(disk[1].owner, cut, Entries(disk[1].owner))
            t == At(disk[2].owner, cut, Entries(disk[2].owner))
        IN  JObj([documents |-> head.members.documents,
                  embeddings |->
                    JArr(SubSeq(head.members.embeddings.items, 1, h - 1)
                         \o << [j |-> "spliced",
                                head |-> head.members.embeddings.items[h],
                                tail |-> tail.members.embeddings.items[t]] >>
                         \o SubSeq(tail.members.embeddings.items, t + 1,
                                   Len(tail.members.embeddings.items))),
                  metadata |-> tail.members.metadata])
  IN  IF disk = << >> THEN {Corrupt}
      ELSE IF \E p \in DOMAIN procs : Is(p)
      THEN {JsonFile(JsonStringify(procs[CHOOSE p \in DOMAIN procs : Is(p)].index))}
      ELSE IF /\ Len(disk) = 2
              /\ disk[1].owner # 0 /\ disk[2].owner # 0
              /\ disk[2].to = procs[disk[2].owner].layout.bytes
              /\ Cut(disk[1].owner, cut) /\ Cut(disk[2].owner, cut)
      THEN {Corrupt, JsonFile(Spliced)}
      ELSE {Corrupt}

\* process p goes to state st without touching the disk
RaceStep(p, st) ==
  /\ race' = [race EXCEPT !.proc[p] = st]
  /\ UNCHANGED << envVars, runVars, ctlVars, netVars, buildVars, queryVars,
                  indexFile, index, writes, mcpVars >>

\* process p goes to state st and leaves bytes on the disk
DiskStep(p, st, bytes) ==
  /\ \E procs \in {[race.proc EXCEPT ![p] = st]} :
       /\ race' = [race EXCEPT !.proc = procs, !.disk = bytes]
       /\ indexFile' \in ReadBacks(bytes, procs)
  /\ UNCHANGED << envVars, runVars, ctlVars, netVars, buildVars, queryVars,
                  index, writes, mcpVars >>

\* buildIndex of process p: readdir, filter, slice, the new index stamped
\* with the time of p
race_start(p) ==
  /\ p \in DOMAIN race.proc
  /\ race.proc[p].pc = "buildIndex"
  /\ LET me == race.proc[p]
     IN  RaceStep(p, [me EXCEPT !.pc = "build_batch",
                                !.txtFiles = SelectFiles(Listing, me.maxDocs),
                                !.index = [documents |-> << >>, embeddings |-> << >>,
                                           metadata |-> [created |-> p]]])

\* one batch of process p, up to the await of its request: the reads, and
\* the request when a text was read
race_batch(p) ==
  /\ p \in DOMAIN race.proc
  /\ race.proc[p].pc = "build_batch"
  /\ race.proc[p].i < Len(race.proc[p].txtFiles)
  /\ LET me == race.proc[p]
         texts == BatchTexts(BatchAt(me.txtFiles, me.i))
     IN  RaceStep(p, IF texts = << >> THEN [me EXCEPT !.i = me.i + batchSize]
                     ELSE [me EXCEPT !.pc = "embed_await"])

\* the embeddings of the batch of process p arrive and are pushed
race_embedded(p) ==
  /\ p \in DOMAIN race.proc
  /\ race.proc[p].pc = "embed_await"
  /\ LET me == race.proc[p]
         batch == BatchAt(me.txtFiles, me.i)
         texts == BatchTexts(batch)
         embeddings ==
           generateEmbeddings(
             [result |-> [results |-> [k \in 1..Len(texts) |->
                                         [embedding |-> LongEmbedding(texts[k])]]]])
     IN  RaceStep(p, [me EXCEPT !.pc = "build_batch",
                                !.i = me.i + batchSize,
                                !.index = PushAll(me.index, BatchDocs(batch), embeddings)])

\* the request of process p fails: the error leaves buildIndex and ends the
\* process
race_embedFailed(p) ==
  /\ p \in DOMAIN race.proc
  /\ race.proc[p].pc = "embed_await"
  /\ RaceStep(p, [race.proc[p] EXCEPT !.pc = "failed"])

\* saveIndex of process p, up to the open of writeFile: the index is
\* stamped and serialized, the file is opened for writing and truncated;
\* the process will write the bytes of the text from offset 0
race_open(p) ==
  /\ p \in DOMAIN race.proc
  /\ race.proc[p].pc = "build_batch"
  /\ race.proc[p].i >= Len(race.proc[p].txtFiles)
  /\ LET me == race.proc[p]
     IN  DiskStep(p, [me EXCEPT !.pc = "writeFile",
                                !.index = Stamped(me.index, p),
                                !.layout = Layout(JsonStringify(Stamped(me.index, p))),
                                !.position = 0],
                  << >>)

\* One write of writeFile of process p: the next bytes of its text, at most
\* kWriteFileMaxChunkSize of them, at the offset the process has reached.
\* The file holds what it held before and after them, with a hole where it
\* was shorter than the offset.  After the last bytes of the text the file
\* is still to be closed; the promise the process awaits is not settled.
race_write(p) ==
  /\ p \in DOMAIN race.proc
  /\ race.proc[p].pc = "writeFile"
  /\ LET me   == race.proc[p]
         from == me.position
         to   == Min(me.layout.bytes, from + kWriteFileMaxChunkSize)
         size == IF race.disk = << >> THEN 0 ELSE race.disk[Len(race.disk)].to
         Part(lo, hi) ==
           SelectSeq([k \in 1..Len(race.disk) |->
                        [race.disk[k] EXCEPT !.from = Max(race.disk[k].from, lo),
                                             !.to = Min(race.disk[k].to, hi)]],
                     LAMBDA g : g.from < g.to)
         pieces == Part(0, from)
                   \o (IF size < from THEN << [owner |-> 0, from |-> size, to |-> from] >>
                       ELSE << >>)
                   \o << [owner |-> p, from |-> from, to |-> to] >>
                   \o Part(to, Max(to, size))
         RECURSIVE Joined(_)
         \* neighbouring segments of one owner are one segment
         Joined(g) ==
           IF Len(g) < 2 THEN g
           ELSE IF g[1].owner = g[2].owner
           THEN Joined(<< [g[1] EXCEPT !.to = g[2].to] >> \o SubSeq(g, 3, Len(g)))
           ELSE << g[1] >> \o Joined(SubSeq(g, 2, Len(g)))
     IN  DiskStep(p, [me EXCEPT !.pc = IF to = me.layout.bytes THEN "written"
                                       ELSE "writeFile",
                                !.position = to],
                  Joined(pieces))

\* the file is closed and the await of writeFile ends: saveIndex and
\* buildIndex of process p return
race_return(p) ==
  /\ p \in DOMAIN race.proc
  /\ race.proc[p].pc = "written"
  /\ race' = [race EXCEPT !.proc[p].pc = "done", !.last = p]
  /\ UNCHANGED << envVars, runVars, ctlVars, netVars, buildVars, queryVars,
                  indexFile, index, writes, mcpVars >>

\* two processes started with build <n>, the configuration set
InitRace ==
  /\ apiKey = "valid"
  /\ spaceId = "set"
  /\ projectId = "unset"
  /\ unreadable \in UnreadableChoices
  /\ indexFile = Absent
  /\ tool = "embedding-index"
  /\ pc = "concurrent"
  /\ clock = 0
  /\ command = "build"
  /\ arg = NoArg
  /\ exitCode = -1
  /\ log = {}
  /\ thrown = "none"
  /\ client = "null"
  /\ created = 0
  /\ requests = << >>
  /\ pending = 0
  /\ failures = 0
  /\ index = NoIndex
  /\ maxDocs = 0
  /\ txtFiles = << >>
  /\ i = 0
  /\ docs = << >>
  /\ readLog = << >>
  /\ query = [src |-> 0, len |-> 0]
  /\ topK = 0
  /\ results = << >>
  /\ contexts = << >>
  /\ writes = 0
  /\ fileAtLaunch = indexFile
  /\ toolResult = [kind |-> "none"]
  /\ answered = NoCall
  /\ inflight = << >>
  /\ calls = 0
  \* each process is at the call of buildIndex(maxDocs): process 1 of
  \* `build 3`, process 2 of `build 2` or `build 3`
  /\ \E n \in {2, 3} :
       race = [proc |-> [p \in {1, 2} |->
                          [pc |-> "buildIndex",
                           maxDocs |-> IF p = 1 THEN 3 ELSE n,
                           txtFiles |-> << >>, i |-> 0,
                           index |-> NoIndex,
                           layout |-> [documents |-> << >>, embeddings |-> << >>,
                                       metadata |-> 0, bytes |-> 0],
                           position |-> 0]],
               disk |-> << >>, last |-> 0]

NextRace ==
  \E p \in {1, 2} :
    \/ race_start(p)
    \/ race_batch(p)
    \/ race_embedded(p)
    \/ race_embedFailed(p)
    \/ race_open(p)
    \/ race_write(p)
    \/ race_return(p)

SpecRace == InitRace /\ [][NextRace]_vars

\* =================================================================== claims
BuildRun == tool = "embedding-index" /\ command \in {"build", "call:buildIndex"}
QueryRun == tool = "embedding-index" /\ command \in {"search", "rag", "call:queryIndex"}
\* the process has called loadIndex and got its result
Loaded ==
  /\ tool = "embedding-index"
  /\ command \in {"search", "rag", "stats", "call:queryIndex"}
  /\ pc \notin {"queryIndex", "showStats"}
  /\ exitCode # 1
\* a file saveIndex wrote
Written(file) == file.kind = "json" /\ file \notin ForeignFiles

\* index.documents.length === 0 for the value loadIndex makes of the file
IndexIsEmpty(file) == DocumentsLength(LoadedText(file, clock)) = JNum(0)

\* the loaded value is an object that has documents
HasDocuments == ~(indexFile.kind = "json" /\ DocumentsThrows(indexFile.text))
ReadOk(e) == e[2]
\* the documents and the embeddings written in an index file
FileDocuments(file) == file.text.members.documents.items
FileEmbeddings(file) == file.text.members.embeddings.items
SomeReadFailed == \E k \in 1..Len(readLog) : ~readLog[k][2]

\* C1: in the index under construction, in every loaded index and in
\* every index file written, documents and embeddings have the same number
\* of entries, whatever the number of batches and the files skipped.
C1_LengthsAgree ==
  /\ ~(Loaded /\ indexFile \in ForeignFiles) =>
       Len(index.documents) = Len(index.embeddings)
  /\ Written(indexFile) =>
       Len(FileDocuments(indexFile)) = Len(FileEmbeddings(indexFile))

\* a saved build of two batches that skipped an unreadable file
C1_Witness ==
  /\ BuildRun /\ pc = "exited" /\ writes = 1
  /\ i > batchSize
  /\ SomeReadFailed
  /\ Len(requests) = 2
  /\ Len(FileDocuments(indexFile)) > batchSize - 3

\* queryIndex has ranked the index against the query and returned
Searched == QueryRun /\ "searched" \in log
\* the similarity of every indexed document to the query
Scores == Scored(index, ServiceEmbedding(query))
\* No result is followed by a strictly more similar one.  A NaN similarity
\* is read in the code's favour: it is out of order with nothing.
Descending(res) ==
  \A j, k \in 1..Len(res) :
     j < k => ~SimLess(res[j].similarity, res[k].similarity)
Returned(res, name) == \E k \in 1..Len(res) : res[k].filename = name

\* C2 (as claimed): with topK below the number N of indexed documents,
\* queryIndex returns exactly topK results, in descending order of
\* similarity, and no document left out is more similar to the query than
\* a returned one.
C2_TopKAreTheBest ==
  (Searched /\ topK < Len(index.documents)) =>
     /\ Len(results) = topK
     /\ Descending(results)
     /\ \A r \in 1..Len(results), d \in 1..Len(Scores) :
           ~Returned(results, Scores[d].filename) =>
              ~SimLess(results[r].similarity, Scores[d].similarity)

\* C3 (as claimed): with topK at least N, queryIndex returns N results in
\* descending order of similarity, every indexed document exactly once.
C3_AllDocumentsRanked ==
  (Searched /\ topK >= Len(index.documents)) =>
     /\ Len(results) = Len(index.documents)
     /\ Descending(results)
     /\ \A d \in 1..Len(index.documents) :
           Cardinality({k \in 1..Len(results) :
                          results[k].filename = index.documents[d].filename}) = 1

\* C4: once an embedding request of a build has failed, the process has
\* stopped with that error: the reads end with the failing batch, the
\* failing request is the last one, saveIndex is not called and the index
\* file is the one the process found.
BatchesWithText(upTo) ==
  { b \in 0..upTo : Len(BatchTexts(BatchAt(txtFiles, b * batchSize))) > 0 }

C4_EmbedFailureAborts ==
  (BuildRun /\ failures > 0) =>
     /\ pc = "exited" /\ thrown = "embedText"
     /\ failures = 1 /\ pending = 0
     /\ Len(readLog) = Min(i + batchSize, Len(txtFiles))
     /\ Len(requests) = Cardinality(BatchesWithText(i \div batchSize))
     /\ writes = 0
     /\ indexFile = fileAtLaunch

\* the second batch fails after the first was embedded, over an index file
\* an earlier build wrote
C4_Witness ==
  /\ BuildRun /\ failures = 1 /\ pc = "exited"
  /\ i = batchSize /\ Len(index.documents) > 0
  /\ Len(txtFiles) > batchSize
  /\ Written(fileAtLaunch) /\ Len(FileDocuments(fileAtLaunch)) > 0

\* C5: the index under construction holds, for the batches embedded so
\* far, one document per file whose read succeeded, in reading order, and
\* none for a file whose read failed; the embedding at each position is the
\* one of the first 500 characters of the document at that position; a
\* build that was saved has attempted every selected file.
C5_PairPerReadableFile ==
  BuildRun =>
    LET done == Min(i, Len(readLog))
        ok   == SelectSeq(SubSeq(readLog, 1, done), ReadOk)
    IN  /\ index.documents =
             [k \in 1..Len(ok) |-> DocEntry(ok[k][1], Content(ok[k][1].stem))]
        /\ index.embeddings =
             [k \in 1..Len(index.documents) |->
                ServiceEmbedding(
                  Substring(Content(index.documents[k].filename.stem), EmbedChars))]
        /\ ("index_built" \in log =>
              /\ Len(readLog) = Len(txtFiles)
              /\ \A k \in 1..Len(txtFiles) : readLog[k][1] = txtFiles[k])

\* a saved build of two batches in which reads failed and reads succeeded
C5_Witness ==
  /\ BuildRun /\ "index_built" \in log
  /\ i > batchSize
  /\ SomeReadFailed
  /\ Len(index.documents) >= 2
  /\ Len(index.documents) < Len(txtFiles)

\* C6: with the index file absent or corrupt, loadIndex returns the empty
\* index stamped with the current time, no error leaves it, and search, rag
\* and stats go on to their normal end without a request.
C6_LoadNeverRaises ==
  (Loaded /\ fileAtLaunch.kind # "json") =>
     /\ index = [documents |-> << >>, embeddings |-> << >>,
                 metadata |-> [created |-> clock, count |-> 0]]
     /\ thrown = "none"
     /\ requests = << >>
     /\ (pc = "exited" =>
           /\ exitCode = 0
           /\ log \cap {"index_empty", "stats"} # {})

\* rag over a corrupt index file ended normally
C6_Witness ==
  /\ Loaded /\ command = "rag" /\ fileAtLaunch = Corrupt
  /\ pc = "exited" /\ clock > 1
  /\ index.metadata.created = clock

\* C7: rag over an empty index (no file, or a file with zero documents)
\* sends no request at all, so none to the generation endpoint, and ends
\* by reporting that no documents were found.
C7_RagEmptyIndexNoGeneration ==
  (Loaded /\ command = "rag" /\ HasDocuments /\ IndexIsEmpty(indexFile)) =>
     /\ \A k \in 1..Len(requests) : requests[k].kind # "generateText"
     /\ pending = 0
     /\ pc \in {"ragQuery", "exited"}
     /\ (pc = "exited" => "no_documents" \in log /\ thrown = "none")

\* rag ended over an index file that holds zero documents
C7_Witness ==
  /\ Loaded /\ command = "rag" /\ pc = "exited"
  /\ Written(fileAtLaunch)
  /\ IndexIsEmpty(indexFile)
  /\ "no_documents" \in log

\* C10 (as claimed): a build given 0 as maxDocuments, by the build
\* subcommand or by a call of buildIndex, or run where no file can be read,
\* persists an index with no documents, no embeddings and count 0.
C10_ZeroBuildIsEmpty ==
  (/\ BuildRun /\ "index_built" \in log
   /\ \/ (command = "build" /\ arg.kind = "digits" /\ arg.val = 0)
      \/ (command = "call:buildIndex" /\ maxDocs = 0)
      \/ unreadable = Files) =>
     /\ indexFile.kind = "json"
     /\ FileDocuments(indexFile) = << >>
     /\ FileEmbeddings(indexFile) = << >>
     /\ indexFile.text.members.metadata.members.count = JNum(0)

\* C8: whatever the tool name and the arguments, and whether the remote
\* request or the creation of the client fails, the handler of a tool call
\* ends with a returned content array of one text item; no error leaves
\* the handler.
C8_ToolCallNeverThrows ==
  (tool = "mcp-server" /\ answered.name \in ToolNames) =>
    /\ toolResult.kind = "returned"
    /\ Len(toolResult.content) = 1
    /\ toolResult.content[1].type = "text"

\* the process was started through the main of one of the three scripts
ViaMain ==
  /\ tool \in {"embedding-index", "document-analyzer", "batch-processor"}
  /\ command \notin {"call:buildIndex", "call:queryIndex"}

\* C9: with the API key or the space id absent, every subcommand of the
\* three scripts ends with a non-zero status and the configuration error,
\* and has constructed no client and sent no remote request.
C9_ConfigErrorBeforeRemote ==
  (ViaMain /\ (apiKey = "unset" \/ spaceId = "unset")) =>
    /\ pc = "exited"
    /\ exitCode # 0
    /\ exitCode # -1
    /\ "config_error" \in log
    /\ requests = << >>
    /\ created = 0

\* a batch run with the key set and the space id absent ended with status 1
C9_Witness ==
  /\ tool = "batch-processor"
  /\ command = "full"
  /\ apiKey = "valid"
  /\ spaceId = "unset"
  /\ exitCode = 1
  /\ "config_error" \in log

\* C11: the index a build saved loads back with the same documents and
\* the same embeddings, entry by entry; and saving a loaded index again
\* writes the documents and the embeddings the file already held.
C11_SaveLoadRoundTrip ==
  /\ (BuildRun /\ "index_built" \in log) =>
        LET back == loadIndex(indexFile, clock).value
        IN  /\ back.documents = index.documents
            /\ back.embeddings = index.embeddings
  /\ (Loaded /\ Written(fileAtLaunch)) =>
        LET again == saveIndex(index, clock)
        IN  /\ FileDocuments(again) = FileDocuments(fileAtLaunch)
            /\ FileEmbeddings(again) = FileEmbeddings(fileAtLaunch)

\* stats loaded an index of two batches that an earlier build saved
C11_Witness ==
  /\ Loaded /\ command = "stats" /\ pc = "exited"
  /\ Written(fileAtLaunch)
  /\ Len(index.documents) > batchSize
  /\ Len(index.embeddings) = Len(index.documents)
  /\ index.embeddings[1] = VectorTable[1]

\* what generateEmbeddings returned for the first n requests, one after
\* the other
RECURSIVE Returns(_, _)
Returns(reqs, n) ==
  IF n = 0 THEN << >>
  ELSE Returns(reqs, n - 1) \o generateEmbeddings(EmbedResponse(reqs[n]))

\* C12: for every request of n texts the embedding index has sent,
\* generateEmbeddings returns, when the request succeeds, n vectors, the
\* k-th being the vector of the k-th text; a build with no failure holds
\* exactly the vectors returned for its requests, in the order returned.
C12_OneVectorPerText ==
  /\ \A r \in 1..Len(requests) :
        (tool = "embedding-index" /\ requests[r].kind = "embedText") =>
          LET texts == requests[r].inputs
              vectors == generateEmbeddings(EmbedResponse(requests[r]))
          IN  /\ Len(texts) > 0
              /\ Len(vectors) = Len(texts)
              /\ \A k \in 1..Len(texts) : vectors[k] = ServiceEmbedding(texts[k])
  /\ (BuildRun /\ pending = 0 /\ failures = 0 /\ thrown = "none") =>
        index.embeddings = Returns(requests, Len(requests))

\* a build got the vectors of a full batch and of a second batch, and the
\* first two texts of the first batch have different vectors
C12_Witness ==
  /\ BuildRun /\ pending = 0 /\ failures = 0
  /\ Len(requests) = 2
  /\ Len(requests[1].inputs) = batchSize
  /\ Len(index.embeddings) = batchSize + Len(requests[2].inputs)
  /\ index.embeddings[1] # index.embeddings[2]

\* C13 (as claimed): every text the embedding index submits to the
\* embedding endpoint, a document of a build or the query of search or rag,
\* has at most 500 characters.
C13_SubmittedTextsTruncated ==
  \A r \in 1..Len(requests) :
     (tool = "embedding-index" /\ requests[r].kind = "embedText") =>
        \A k \in 1..Len(requests[r].inputs) :
           requests[r].inputs[k].len <= EmbedChars

\* every concurrent build has ended, saved or failed
RaceOver ==
  /\ race.proc # << >>
  /\ \A p \in DOMAIN race.proc : race.proc[p].pc \in {"done", "failed"}

\* C14 (as claimed): when two concurrent builds have finished, the index
\* file is the complete index of the process that saved last, never a
\* mixture of the two.
C14_LastWriterWins ==
  (RaceOver /\ race.last # 0) =>
     indexFile = JsonFile(JsonStringify(race.proc[race.last].index))

\* the requests of the generate, embeddings and chat tools
ScopedRequests ==
  {r \in 1..Len(requests) :
     tool = "mcp-server" /\ requests[r].kind \in {"generateText", "embedText"}}

\* C15: a request of the generate, embeddings or chat tool carries the
\* space id and nothing else when the space id is configured, the project
\* id and nothing else when only the project id is configured, and neither
\* when none is configured.
C15_SpaceElseProject ==
  \A r \in ScopedRequests :
     LET sent == requests[r].scope
     IN  /\ spaceId # "unset" =>
               DOMAIN sent = {"spaceId"} /\ sent.spaceId = spaceId
         /\ (spaceId = "unset" /\ projectId # "unset") =>
               DOMAIN sent = {"projectId"} /\ sent.projectId = projectId
         /\ (spaceId = "unset" /\ projectId = "unset") => DOMAIN sent = {}

\* with both identifiers configured, the embeddings tool and then the chat
\* tool have sent their requests
C15_Witness ==
  /\ tool = "mcp-server"
  /\ spaceId # "unset" /\ projectId # "unset"
  /\ Len(requests) = 2
  /\ requests[1].kind = "embedText"
  /\ command = "watsonx_chat"
  /\ requests[2].kind = "generateText"
  /\ ScopedRequests = {1, 2}

\* ---- C16: the category classifyDocument returns ----

\* the classifications a batch-processor run has recorded: the file and the
\* returned category
Classified ==
  IF tool = "batch-processor"
  THEN { [file |-> docs[k].filename.stem, category |-> docs[k].values[1].value] :
           k \in { n \in 1..Len(docs) :
                     /\ "values" \in DOMAIN docs[n]
                     /\ Len(docs[n].values) > 0
                     /\ docs[n].values[1].key = "classify" } }
  ELSE {}

\* the words of a generated text, in order
Words(text) == SelectSeq(text, LAMBDA t : t # Space)

\* the word is, as written, one of the nine category names
IsCategoryName(w) ==
  w.letters \in validCategories /\ ~w.capitals /\ w.others = "none"

\* C16 as stated: classifyDocument returns one of the nine categories for
\* every generated text, and "other" when the text is empty or its first
\* word is not one of the nine.
C16_CategoryOfFirstWord ==
  \A c \in Classified :
    LET words == Words(ClassifyReply(c.file))
    IN  /\ c.category \in validCategories
        /\ (words = << >> \/ ~IsCategoryName(words[1])) => c.category = "other"

\* C16 amended: classifyDocument returns one of the nine categories for
\* every generated text, and "other" when the text is empty or its first
\* word, lower-cased and with every character other than a-z removed, is not
\* one of the nine.
C16_CategoryOfNormalisedFirstWord ==
  \A c \in Classified :
    LET words == Words(ClassifyReply(c.file))
    IN  /\ c.category \in validCategories
        /\ (words = << >> \/ words[1].letters \notin validCategories)
             => c.category = "other"

\* a run has classified an empty text, a text whose first word names no
\* category, and a text whose first word names one only once normalised
C16_Witness ==
  /\ \E c \in Classified : Words(ClassifyReply(c.file)) = << >>
  /\ \E c \in Classified :
       /\ Words(ClassifyReply(c.file)) # << >>
       /\ Words(ClassifyReply(c.file))[1].letters \notin validCategories
  /\ \E c \in Classified :
       /\ Words(ClassifyReply(c.file)) # << >>
       /\ ~IsCategoryName(Words(ClassifyReply(c.file))[1])
       /\ c.category # "other"

\* ---- C17: cosineSimilarity is symmetric ----

\* the sum of the squares of the components of v
RECURSIVE SquaredNorm(_)
SquaredNorm(v) == IF v = << >> THEN 0 ELSE v[1] * v[1] + SquaredNorm(Tail(v))

\* s and t are the same double, and a number
SameNumber(s, t) == ~IsNaN(s) /\ ~IsNaN(t) /\ s = t

\* the pairs <<similarity, query embedding, document embedding>> of the
\* results a search of the index or of the analyzer has returned
ScoredPairs ==
  IF Searched
  THEN { << results[p[1]].similarity, ServiceEmbedding(query),
            index.embeddings[p[2]] >> :
           p \in { q \in (1..Len(results)) \X (1..Len(index.documents)) :
                     index.documents[q[2]].filename = results[q[1]].filename } }
  ELSE IF tool = "document-analyzer" /\ "searched" \in log
  THEN { << results[k].similarity, ServiceEmbedding(query),
            generateEmbeddings(EmbedResponse(requests[1]))[results[k].index + 1] >> :
           k \in 1..Len(results) }
  ELSE {}

\* the vectors have the same length and neither has norm zero
Comparable(a, b) ==
  Len(a) = Len(b) /\ SquaredNorm(a) # 0 /\ SquaredNorm(b) # 0

\* C17: for vectors of equal length and non-zero norm, the similarity a
\* search computed as cosineSimilarity(query, document) is the number
\* cosineSimilarity(document, query): swapping the arguments changes nothing.
C17_CosineSymmetric ==
  \A p \in ScoredPairs :
    Comparable(p[2], p[3]) => SameNumber(p[1], cosineSimilarity(p[3], p[2]))

\* a search has scored a document whose norm differs from the query's, at a
\* similarity that is not 0
C17_Witness ==
  \E p \in ScoredPairs :
    /\ Comparable(p[2], p[3])
    /\ SquaredNorm(p[2]) # SquaredNorm(p[3])
    /\ SameNumber(p[1], p[1])
    /\ p[1] # Zero

\* ---- C18: the embedding requests of a build ----

\* the sources of the texts of the first n requests, one after another
RECURSIVE SubmittedSources(_, _)
SubmittedSources(reqs, n) ==
  IF n = 0 THEN << >>
  ELSE SubmittedSources(reqs, n - 1) \o
         [k \in 1..Len(reqs[n].inputs) |-> reqs[n].inputs[k].src]

\* the files the loop of buildIndex has gone through: those before i, and
\* the batch at i while its request is outstanding
FilesBatched ==
  SubSeq(txtFiles, 1,
         Min(Len(txtFiles), IF pc = "build_await" THEN i + batchSize ELSE i))

\* the stems of the readable files among files, in order
ReadableStems(files) ==
  LET ok == SelectSeq(files, LAMBDA f : f.stem \notin unreadable)
  IN  [k \in 1..Len(ok) |-> ok[k].stem]

\* C18: during buildIndex at most one embedding request is outstanding and
\* the process awaits it before it goes on; every request carries between
\* one and ten texts; the texts requested so far are those of the readable
\* files of the batches gone through, in the order of the files.
C18_BuildRequestsSequential ==
  (BuildRun /\ pc \in {"build_batch", "build_await"}) =>
    /\ pending <= 1
    /\ pending = 1 <=> pc = "build_await"
    /\ \A k \in 1..Len(requests) :
         /\ requests[k].kind = "embedText"
         /\ Len(requests[k].inputs) \in 1..10
    /\ SubmittedSources(requests, Len(requests)) = ReadableStems(FilesBatched)

\* the request of the second batch is outstanding after a first request of
\* ten texts was answered
C18_Witness ==
  /\ BuildRun
  /\ pc = "build_await"
  /\ Len(requests) = 2
  /\ Len(requests[1].inputs) = 10
  /\ pending = 1

\* ---- C19: the generation request of ragQuery ----

RagRun == tool = "embedding-index" /\ command = "rag"

\* the positions of the generation requests among the requests sent
Generations == { k \in 1..Len(requests) : requests[k].kind = "generateText" }

\* the search of a rag run has returned results and ragQuery has gone on
\* past the reads of their sources
RagPastReads ==
  /\ RagRun
  /\ "searched" \in log
  /\ Len(index.documents) > 0
  /\ pc # "ragQuery"

\* C19: a rag run sends at most one generation request; over a non-empty
\* index it has sent exactly one once the search and the reads of the
\* sources are done, also when no source could be read; the request comes
\* after the embedding request of the search and carries the contexts read,
\* none when every read failed.
C19_OneGenerationAfterReads ==
  RagRun =>
    /\ Cardinality(Generations) <= 1
    /\ RagPastReads => Cardinality(Generations) = 1
    /\ \A k \in Generations :
         /\ RagPastReads
         /\ k = Len(requests)
         /\ \A j \in 1..(k - 1) : requests[j].kind = "embedText"
         /\ Len(results) > 0
         /\ Len(requests[k].context) = Len(contexts)
         /\ \A n \in 1..Len(contexts) :
              requests[k].context[n].filename = contexts[n].filename
         /\ (\A n \in 1..Len(results) : results[n].filename.stem \in unreadable)
              => requests[k].context = << >>

\* a rag run awaits the answer to a request with an empty context block:
\* the search returned documents and none of them could be read
C19_Witness ==
  /\ RagRun
  /\ pc = "rag_await"
  /\ Len(results) > 0
  /\ \A n \in 1..Len(results) : results[n].filename.stem \in unreadable
  /\ Cardinality(Generations) = 1
  /\ requests[Len(requests)].context = << >>

\* ---- C20: the contexts of ragQuery ----

\* the file names of a sequence of results or contexts, in order
Filenames(seq) == [k \in 1..Len(seq) |-> seq[k].filename]

\* the contexts are the results whose source can be read, in the order of
\* the results, each with the first 1500 characters of its source
ContextsAreReadableResults ==
  /\ Filenames(contexts) =
       Filenames(SelectSeq(results, LAMBDA r : r.filename.stem \notin unreadable))
  /\ Len(contexts) <= topK
  /\ \A k \in 1..Len(contexts) :
       /\ contexts[k].content.src = contexts[k].filename.stem
       /\ contexts[k].content.len =
            Min(Content(contexts[k].filename.stem).len, 1500)
       /\ contexts[k].content.len <= 1500

\* a failed read raises nothing, and the run that got its answer has
\* printed the sources from the contexts
ReadsAreSilent ==
  /\ thrown \in {"none", "generateText"}
  /\ (pc = "exited" /\ thrown = "none") => "sources" \in log

\* C20 (as claimed): the contexts of ragQuery are the readable documents
\* among the topK most similar documents, in descending order of similarity,
\* at most topK, each cut to 1500 characters; an unreadable source is
\* dropped without an error and the sources reported are the contexts.
C20_ContextsAreReadableTopK ==
  RagPastReads =>
    /\ ContextsAreReadableResults
    /\ ReadsAreSilent
    /\ Descending(contexts)
    /\ \A c \in 1..Len(contexts), d \in 1..Len(Scores) :
         ~Returned(results, Scores[d].filename) =>
            ~SimLess(contexts[c].similarity, Scores[d].similarity)

\* ---- C21: the one write of a build ----

\* the files this build has read, those whose read succeeded, in order
FilesRead ==
  LET ok == SelectSeq(readLog, ReadOk)
  IN  [k \in 1..Len(ok) |-> ok[k][1]]

\* C21: a build does not write the index file before its last batch is
\* embedded; a successful build has written it exactly once, and the file
\* then holds the documents and embeddings of the files this build read,
\* and nothing of the file as it was when the build started.
C21_OneWriteOfThisBuild ==
  BuildRun =>
    /\ "index_built" \notin log => (writes = 0 /\ indexFile = fileAtLaunch)
    /\ "index_built" \in log =>
         /\ writes = 1
         /\ Len(readLog) = Len(txtFiles)
         /\ indexFile.kind = "json"
         /\ FileDocuments(indexFile) =
              [k \in 1..Len(FilesRead) |->
                 StringifyDocument(DocEntry(FilesRead[k], Content(FilesRead[k].stem)))]
         /\ Len(FileEmbeddings(indexFile)) = Len(FilesRead)

\* a build has replaced an index file of more documents by a smaller one
C21_Witness ==
  /\ BuildRun /\ "index_built" \in log
  /\ Written(fileAtLaunch)
  /\ indexFile.kind = "json"
  /\ Len(FileDocuments(indexFile)) > 0
  /\ Len(FileDocuments(fileAtLaunch)) > Len(FileDocuments(indexFile))

\* ---- C22: metadata.count and metadata.updated of a saved index ----

FileMetadata(file) == file.text.members.metadata.members

\* C22: every index file the program has written holds a metadata.count
\* equal to the number of entries of its documents array and a
\* metadata.updated; right after a save, updated is the time of the save.
C22_CountIsNumberOfDocuments ==
  /\ Written(indexFile) =>
       /\ "count" \in DOMAIN FileMetadata(indexFile)
       /\ FileMetadata(indexFile).count = JNum(Len(FileDocuments(indexFile)))
       /\ "updated" \in DOMAIN FileMetadata(indexFile)
  /\ (BuildRun /\ "index_built" \in log) =>
       /\ indexFile.kind = "json"
       /\ "updated" \in DOMAIN FileMetadata(indexFile)
       /\ FileMetadata(indexFile).updated = JStr(clock)

\* a build has saved an index of more than ten documents
C22_Witness ==
  /\ BuildRun /\ "index_built" \in log
  /\ indexFile.kind = "json"
  /\ Len(FileDocuments(indexFile)) > batchSize
  /\ FileMetadata(indexFile).count = JNum(Len(FileDocuments(indexFile)))

\* ---- C23: the documents of a build and maxDocuments ----

\* the first n .txt entries of the directory listing
FirstTxtEntries(n) ==
  LET txt == SelectSeq(Listing, LAMBDA f : f.ext = "txt")
  IN  SubSeq(txt, 1, Min(Max(n, 0), Len(txt)))

\* the position of file name in the listing of .txt entries, 0 when absent
TxtPosition(name) ==
  LET all == FirstTxtEntries(NumFiles)
      at  == { k \in 1..Len(all) : all[k] = name }
  IN  IF at = {} THEN 0 ELSE CHOOSE k \in at : TRUE

\* C23 (as claimed): the documents of the index a build holds are at most
\* maxDocuments, and their files are entries of the first maxDocuments .txt
\* entries of the listing, in the order of the listing, none twice.
C23_AtMostMaxDocuments ==
  (BuildRun /\ pc # "buildIndex") =>
     /\ Len(index.documents) <= maxDocs
     /\ \A k \in 1..Len(index.documents) :
          /\ TxtPosition(index.documents[k].filename) \in 1..Len(FirstTxtEntries(maxDocs))
          /\ \A j \in 1..(k - 1) :
               TxtPosition(index.documents[j].filename)
                 < TxtPosition(index.documents[k].filename)

\* ---- C24: no retry of an embedding request ----

\* the positions of the embedding requests among the requests sent
Embeddings == { k \in 1..Len(requests) : requests[k].kind = "embedText" }

\* C24: in the programs that call generateEmbeddings no embedding request is
\* sent twice for the same texts; when an embedding request has failed, it
\* is the last request sent, none is outstanding, and the process has ended
\* with the error of the request.
C24_NoRetry ==
  tool \in {"embedding-index", "document-analyzer"} =>
    /\ \A j, k \in Embeddings : j < k => requests[j].inputs # requests[k].inputs
    /\ (failures > 0 /\ Len(requests) \in Embeddings) =>
         /\ failures = 1
         /\ pending = 0
         /\ pc = "exited"
         /\ thrown = "embedText"

\* the request of the second batch of a build has failed
C24_Witness ==
  /\ BuildRun
  /\ Len(requests) = 2
  /\ failures = 1
  /\ thrown = "embedText"

\* ---- C25: one client handle per process ----

\* C25: a process never creates a second client handle; it holds a handle
\* exactly when it has created one, which needs the API key; once a call of
\* the getter has found the key accepted, the handle exists, and the calls
\* after it create nothing.
C25_OneClientHandle ==
  /\ created <= 1
  /\ (client = "handle") <=> (created = 1)
  /\ created = 1 => apiKey = "valid"
  /\ (tool = "mcp-server" /\ command \in ToolNames /\ apiKey = "valid") => created = 1
  /\ Len(requests) > 0 => created = 1

\* the server has answered two tool calls with one handle
C25_Witness ==
  /\ tool = "mcp-server"
  /\ calls = 2
  /\ Len(requests) = 2
  /\ created = 1

\* ---- C26: the listed tools and the dispatch ----

\* the handler returned the text of the default branch of the switch
UnknownToolResult ==
  /\ toolResult.kind = "returned"
  /\ Len(toolResult.content[1].text) = 2
  /\ toolResult.content[1].text[1] = "Unknown tool: "

\* C26 (as claimed): a call of a tool the listing names, with the client
\* configured, never returns the "Unknown tool" result.
C26_ListedToolsAreDispatched ==
  (/\ tool = "mcp-server"
   /\ apiKey = "valid"
   /\ \E k \in 1..Len(ListedTools) : ListedTools[k] = answered.name)
    => ~UnknownToolResult

\* ---- C27: the generation parameters of generate and chat ----

\* the generation parameters each tool sends, and the defaults advertised
\* in its input schema (in tenths)
AdvertisedParameters(name) ==
  IF name = "watsonx_generate"
  THEN {"max_new_tokens", "temperature", "top_p", "top_k"}
  ELSE {"max_new_tokens", "temperature"}
AdvertisedDefault(param) ==
  CASE param = "max_new_tokens" -> Num(5000)
    [] param = "temperature"    -> Num(7)
    [] param = "top_p"          -> Num(10)
    [] param = "top_k"          -> Num(500)

\* the last tool call was a generate or chat call that sent its request
GenerationCall ==
  /\ tool = "mcp-server"
  /\ command \in {"watsonx_generate", "watsonx_chat"}
  /\ apiKey = "valid"
  /\ arg.t = "obj"
  /\ command = "watsonx_chat" =>
       ("messages" \in DOMAIN arg.fields /\ arg.fields.messages = Messages)

\* C27 (as claimed): the request of a generate or chat call carries every
\* generation parameter the caller supplied, 0 included, as supplied, and
\* the advertised default for a parameter the caller left out.
C27_ParametersForwarded ==
  GenerationCall =>
    \A param \in AdvertisedParameters(command) :
       requests[Len(requests)].parameters[param] =
         IF param \in DOMAIN arg.fields THEN arg.fields[param]
         ELSE AdvertisedDefault(param)

\* ---- C28: tool calls with no API key ----

\* C28: with no API key configured the server sends no request and creates
\* no client, and every tool call, whatever its name and arguments, returns
\* the one text item that says watsonx.ai is not configured.
C28_NotConfiguredNoRequest ==
  (tool = "mcp-server" /\ apiKey = "unset") =>
    /\ requests = << >>
    /\ pending = 0
    /\ inflight = << >>
    /\ created = 0
    /\ command \in ToolNames =>
         answered = Call(command, arg)
    /\ answered.name \in ToolNames =>
         /\ toolResult.kind = "returned"
         /\ Len(toolResult.content) = 1
         /\ toolResult.content[1].text = << "Error: watsonx.ai not configured." >>

\* with no API key, the server has answered two tool calls, the last one
\* for a name it does not know
C28_Witness ==
  /\ tool = "mcp-server" /\ apiKey = "unset"
  /\ calls = 2
  /\ answered.name = "no_such_tool"
  /\ toolResult.content[1].text = << "Error: watsonx.ai not configured." >>

\* ---- C29: one result entry per file of a batch ----

BatchRun ==
  /\ tool = "batch-processor"
  /\ command \in {"classify", "topics", "summarize", "full"}
  /\ pc \in {"processBatch", "batch_await", "exited"}

\* the entry holds the file name and the error message, and nothing else
IsErrorEntry(e) == DOMAIN e = {"filename", "error"}

\* C29: processBatch holds one entry for each file it has gone through, in
\* the order of the files; the entry of a file that cannot be read, or
\* whose remote call failed, holds the file name and the error message;
\* after a failure the loop goes on, and the run ends with as many entries
\* as files.
C29_OneEntryPerFile ==
  BatchRun =>
    /\ Len(docs) = i
    /\ i <= Len(txtFiles)
    /\ \A k \in 1..Len(docs) :
         /\ docs[k].filename = txtFiles[k]
         /\ txtFiles[k].stem \in unreadable => IsErrorEntry(docs[k])
    /\ apiKey = "bad" => \A k \in 1..Len(docs) : IsErrorEntry(docs[k])
    /\ apiKey # "bad" =>
         Cardinality({ k \in 1..Len(docs) :
                         IsErrorEntry(docs[k]) /\ txtFiles[k].stem \notin unreadable })
           = failures
    /\ (pc = "exited" /\ txtFiles # << >>) =>
         /\ "report_saved" \in log
         /\ Len(docs) = Len(txtFiles)

\* a batch run has ended whose first entries hold errors, of a file that
\* could not be read and of a failed remote call, and whose later entries
\* hold results
C29_Witness ==
  /\ BatchRun /\ pc = "exited"
  /\ Len(docs) = Len(txtFiles)
  /\ failures = 1
  /\ \E k \in 1..Len(docs) : txtFiles[k].stem \in unreadable
  /\ \E j, k \in 1..Len(docs) :
       j < k /\ IsErrorEntry(docs[j]) /\ ~IsErrorEntry(docs[k])

\* ---- C30: search, rag and stats do not write the index file ----

ReadOnlyRun ==
  /\ tool = "embedding-index"
  /\ command \in {"search", "rag", "stats", "call:queryIndex"}

\* C30: in a process that runs search, rag or stats the index file is at
\* every moment the file found at launch, and nothing is written: also when
\* the file is missing or corrupt, and when the operation ends in an error.
C30_ReadOnlyOperations ==
  ReadOnlyRun => (indexFile = fileAtLaunch /\ writes = 0)

\* a search or rag has ended in an error over an index file that holds
\* documents
C30_Witness ==
  /\ ReadOnlyRun
  /\ pc = "exited"
  /\ thrown # "none"
  /\ Written(indexFile)
  /\ Len(FileDocuments(indexFile)) > 0

====
